---- MODULE Spec2Model ----
(***************************************************************************)
(* Model of the fantasy-basketball assistant: the /api/refresh pipeline    *)
(* (fetch -> normalize -> diff -> store -> classify -> notify), the alert  *)
(* generator, the snapshot diff and the storage layer.                     *)
(*                                                                         *)
(* Optional values (null / undefined) are sequences of length 0 or 1.      *)
(* A player's name is identified with the player's id.  Time is counted in *)
(* hours.                                                                  *)
(***************************************************************************)
EXTENDS Integers, Sequences, FiniteSets, TLC

VARIABLES
    now,            \* Date.now(), in hours
    latest,         \* storage: <prefix>_latest         (optional snapshot)
    history,        \* storage: <prefix>_history        (fetchedAt list, newest first)
    snapshots,      \* storage: <prefix>_snapshot_<ts>  (set of stored snapshots)
    lastDiff,       \* storage: <prefix>_lastDiff       (optional diff)
    injuryHistory,  \* storage: <prefix>_injuryHistory  (optional index)
    espnData,       \* what getLeagueSnapshot returned to the last refresh (optional)
    smartAlerts,    \* alerts generated by the last refresh
    response,       \* what the last refresh did and answered
    pc,             \* step-level view: the await each handler execution is at
    locals,         \* step-level view: the local variables of each execution
    completed,      \* step-level view: the executions that answered, in order
    storedWatchlist, \* storage: <prefix>_watchlist     (optional watchlist)
    request,        \* the request the last refresh answered (optional)
    espnTopics,     \* ESPN's league communication feed (topics, oldest first)
    alertLog,       \* the transactions each refresh so far raised an alert for
    kv,             \* the keys of the Vercel KV store
    retry,          \* fetchWithRetry: the call in progress
    risk,           \* getInjuryRiskAssessment: the call and what it returned
    watchCalls      \* /api/watchlist: the handlers in progress and those that returned

vars == <<now, latest, history, snapshots, lastDiff, injuryHistory,
          espnData, smartAlerts, response, pc, locals, completed,
          storedWatchlist, request, espnTopics, alertLog, kv, retry, risk, watchCalls>>

\* the variables no route handler writes
EnvVars == <<espnTopics, kv, retry, risk, watchCalls>>

\* ------------------------------------------------------------------------
\* Optional values
\* ------------------------------------------------------------------------
None == <<>>
Some(x) == <<x>>
IsNone(o) == Len(o) = 0
IsSome(o) == Len(o) = 1
Get(o) == o[1]

Range(s) == {s[i] : i \in 1..Len(s)}
Contains(s, x) == \E i \in 1..Len(s) : s[i] = x

RECURSIVE SeqOfSet(_)
\* a set of integers as the ascending sequence of its elements
SeqOfSet(S) ==
    IF S = {} THEN <<>>
    ELSE LET m == CHOOSE x \in S : \A y \in S : x <= y
         IN  <<m>> \o SeqOfSet(S \ {m})

RECURSIVE Flatten(_)
Flatten(ss) == IF Len(ss) = 0 THEN <<>> ELSE Head(ss) \o Flatten(Tail(ss))

\* ------------------------------------------------------------------------
\* Program constants
\* ------------------------------------------------------------------------
STAR_THRESHOLD == 25
DROPPED_PLAYER_THRESHOLD == 35
STREAMER_THRESHOLD == 30
MAX_HISTORY_LENGTH == 50
FREE_AGENT_SLOT == 11
OUT_STATUSES == {"OUT", "INJURY_RESERVE", "SUSPENSION"}
PlayerStatus == {"ACTIVE", "DAY_TO_DAY", "OUT", "INJURY_RESERVE", "SUSPENSION",
                 "DOUBTFUL", "QUESTIONABLE", "PROBABLE"}
POSITION_MAP == [s \in 0..4 |->
    CASE s = 0 -> "PG" [] s = 1 -> "SG" [] s = 2 -> "SF" [] s = 3 -> "PF" [] s = 4 -> "C"]

\* environment of the deployment
myTeamId == 1        \* ESPN_MY_TEAM_ID (default '1')
TeamIds == {1, 2}    \* the fantasy teams of the league
otherTeamId == CHOOSE t \in TeamIds : t # myTeamId
leagueId == 7        \* ESPN_LEAGUE_ID
seasonId == 2026     \* ESPN_SEASON (default '2026')
CronIntervalHours == 12

\* ------------------------------------------------------------------------
\* The ESPN player pool the model draws from
\* ------------------------------------------------------------------------
PlayerIds == {1, 2, 3}
NbaTeams == {1, 2}

\* 1: role player (C/PF) of NBA team 1, 2: high-usage wing of NBA team 1,
\* 3: elite guard of NBA team 2
PoolProTeamId == (1 :> 1) @@ (2 :> 1) @@ (3 :> 2)
PoolEligibleSlots == (1 :> {3, 4, 9, 11, 12}) @@ (2 :> {2, 3, 6, 11, 12}) @@ (3 :> {0, 5, 11, 12})
PoolSeasonAvg == (1 :> 20) @@ (2 :> 30) @@ (3 :> 35)
PoolProjectedAvg == (1 :> 20) @@ (2 :> 25) @@ (3 :> 45)

NoStatus == "undefined"

\* ESPNPlayer as the API returns it for player p with injury status st
ESPNPlayerOf(p, st) ==
    [ id            |-> p,
      proTeamId     |-> PoolProTeamId[p],
      eligibleSlots |-> PoolEligibleSlots[p],
      injured       |-> st \notin {NoStatus, "ACTIVE"},
      injuryStatus  |-> st,
      stats         |-> << [id |-> "002026", statSourceId |-> 0, appliedAverage |-> PoolSeasonAvg[p]],
                           [id |-> "102026", statSourceId |-> 1, appliedAverage |-> PoolProjectedAvg[p]] >> ]

\* ------------------------------------------------------------------------
\* dataTransform: ESPN response -> normalized snapshot
\* ------------------------------------------------------------------------
statusMap(s) ==
    CASE s = "D"    -> "DAY_TO_DAY"
      [] s = "O"    -> "OUT"
      [] s = "IR"   -> "INJURY_RESERVE"
      [] s = "SSPD" -> "SUSPENSION"
      [] s \in PlayerStatus -> s
      [] OTHER      -> "ACTIVE"

mapPlayerStatus(espnPlayer) ==
    IF ~espnPlayer.injured /\ espnPlayer.injuryStatus = NoStatus
    THEN "ACTIVE"
    ELSE statusMap(IF espnPlayer.injuryStatus = NoStatus THEN "ACTIVE"
                   ELSE espnPlayer.injuryStatus)

getPositionsFromSlots(eligibleSlots) ==
    {POSITION_MAP[s] : s \in {x \in eligibleSlots : x >= 0 /\ x <= 4}}

RECURSIVE extractAvg(_, _, _)
\* the appliedAverage of the last stat line with the given statSourceId
extractAvg(stats, sourceId, acc) ==
    IF Len(stats) = 0 THEN acc
    ELSE extractAvg(Tail(stats), sourceId,
                    IF Head(stats).statSourceId = sourceId
                    THEN Some(Head(stats).appliedAverage) ELSE acc)

extractPlayerStats(espnPlayer) ==
    [ seasonAvg    |-> extractAvg(espnPlayer.stats, 0, None),
      projectedAvg |-> extractAvg(espnPlayer.stats, 1, None) ]

transformPlayer(espnPlayer) ==
    [ id         |-> espnPlayer.id,
      name       |-> espnPlayer.id,
      nbaTeamId  |-> espnPlayer.proTeamId,
      positions  |-> getPositionsFromSlots(espnPlayer.eligibleSlots),
      status     |-> mapPlayerStatus(espnPlayer),
      injuryNote |-> IF espnPlayer.injured THEN Some(espnPlayer.injuryStatus) ELSE None,
      stats      |-> extractPlayerStats(espnPlayer) ]

transformRosterEntry(espnPlayer) ==
    [ playerId |-> espnPlayer.id, player |-> transformPlayer(espnPlayer) ]

transformTeam(espnTeam) ==
    [ id     |-> espnTeam.id,
      name   |-> espnTeam.id,
      roster |-> [i \in 1..Len(espnTeam.roster) |-> transformRosterEntry(espnTeam.roster[i])] ]

\* the free agents keep the order of the response here: the waiver score
\* only orders the list
transformFreeAgents(freeAgents) ==
    [i \in 1..Len(freeAgents) |-> [player |-> transformPlayer(freeAgents[i])]]

\* all roster entries of all teams, in team order
AllRosterEntries(teams) == Flatten([i \in 1..Len(teams) |-> teams[i].roster])

buildStatusIndex(teams) ==
    LET entries == AllRosterEntries(teams)
        ids == {entries[i].player.id : i \in 1..Len(entries)}
        lastOf(id) == CHOOSE i \in 1..Len(entries) :
                          /\ entries[i].player.id = id
                          /\ \A j \in 1..Len(entries) : entries[j].player.id = id => j <= i
    IN  [id \in ids |-> [ status     |-> entries[lastOf(id)].player.status,
                          injuryNote |-> entries[lastOf(id)].player.injuryNote ]]

Days == 0..6

\* nbaSchedule: sequence of [id, proGamesByScoringPeriod: optional set of
\* scoring periods with a game]; gamesByDay is the set of day offsets that
\* map to TRUE
buildScheduleIndex(nbaSchedule, currentScoringPeriod) ==
    IF Len(nbaSchedule) = 0
    THEN [t \in NbaTeams |-> [teamId |-> t, gamesThisWeek |-> 3, gamesNext7Days |-> 3,
                              gamesByDay |-> {}]]
    ELSE LET withGames == SelectSeq(nbaSchedule, LAMBDA t : IsSome(t.proGamesByScoringPeriod))
             ids == {withGames[i].id : i \in 1..Len(withGames)}
             entry(id) == CHOOSE i \in 1..Len(withGames) :
                              /\ withGames[i].id = id
                              /\ \A j \in 1..Len(withGames) : withGames[j].id = id => j <= i
             days(id) == {d \in Days :
                             (currentScoringPeriod + d) \in Get(withGames[entry(id)].proGamesByScoringPeriod)}
         IN  [t \in ids |-> [teamId |-> t, gamesThisWeek |-> Cardinality(days(t)),
                             gamesNext7Days |-> Cardinality(days(t)),
                             gamesByDay |-> days(t)]]

buildLeagueSnapshot(input, fetchedAt) ==
    LET teams == [i \in 1..Len(input.teams) |-> transformTeam(input.teams[i])]
    IN  [ fetchedAt       |-> fetchedAt,
          leagueId        |-> input.settings.id,
          seasonId        |-> input.settings.seasonId,
          week            |-> input.settings.currentMatchupPeriod,
          scoringPeriodId |-> input.settings.scoringPeriodId,
          teams           |-> teams,
          myTeamId        |-> myTeamId,
          freeAgentsTopN  |-> SubSeq(transformFreeAgents(input.freeAgents), 1,
                                     IF Len(input.freeAgents) < 50 THEN Len(input.freeAgents) ELSE 50),
          statusIndex     |-> buildStatusIndex(teams),
          scheduleIndex   |-> buildScheduleIndex(input.nbaSchedule, input.settings.scoringPeriodId) ]

\* ------------------------------------------------------------------------
\* calculateSnapshotDiff
\* ------------------------------------------------------------------------
findTeam(teams, id) ==
    LET hits == SelectSeq(teams, LAMBDA t : t.id = id)
    IN  IF Len(hits) = 0 THEN None ELSE Some(hits[1])

rosterOf(optTeam) == IF IsNone(optTeam) THEN <<>> ELSE Get(optTeam).roster

calculateSnapshotDiff(previous, current) ==
    LET myRoster == rosterOf(findTeam(current.teams, current.myTeamId))
        changedIds == IF IsNone(previous) THEN {}
                      ELSE {id \in DOMAIN current.statusIndex :
                               /\ id \in DOMAIN Get(previous).statusIndex
                               /\ Get(previous).statusIndex[id].status # current.statusIndex[id].status}
        order == SeqOfSet(changedIds)
        change(id) ==
            LET mine == \E i \in 1..Len(myRoster) : myRoster[i].playerId = id
            IN  [ playerId       |-> id,
                  playerName     |-> id,
                  previousStatus |-> Get(previous).statusIndex[id].status,
                  currentStatus  |-> current.statusIndex[id].status,
                  isMyPlayer     |-> mine,
                  injuryNote     |-> current.statusIndex[id].injuryNote ]
        statusChanges == [i \in 1..Len(order) |-> change(order[i])]
        faIds(s) == {s.freeAgentsTopN[i].player.id : i \in 1..Len(s.freeAgentsTopN)}
        newTop == IF IsNone(previous) THEN <<>>
                  ELSE SelectSeq(current.freeAgentsTopN,
                                 LAMBDA fa : fa.player.id \notin faIds(Get(previous)))
        removedTop == IF IsNone(previous) THEN <<>>
                      ELSE SelectSeq(Get(previous).freeAgentsTopN,
                                     LAMBDA fa : fa.player.id \notin faIds(current))
        weekChanged == IF IsNone(previous) THEN FALSE ELSE Get(previous).week # current.week
    IN  [ statusChanges              |-> statusChanges,
          newTopWaiverCandidates     |-> newTop,
          removedTopWaiverCandidates |-> removedTop,
          weekChanged                |-> weekChanged,
          significantChanges         |->
              \/ \E i \in 1..Len(statusChanges) : statusChanges[i].isMyPlayer
              \/ Len(newTop) >= 3
              \/ weekChanged ]

\* ------------------------------------------------------------------------
\* smartAlerts: helpers
\* ------------------------------------------------------------------------
OrZero(opt) == IF IsNone(opt) THEN 0 ELSE Get(opt)

\* a lower bar than the star threshold
isHighUsageStar_roleBar(player) == OrZero(player.stats.projectedAvg) >= 20

isHighUsageStar(player) == OrZero(player.stats.projectedAvg) >= STAR_THRESHOLD

sharesPosition(player1, player2) == player1.positions \cap player2.positions # {}

justWentOut(change) ==
    /\ change.previousStatus \notin OUT_STATUSES
    /\ change.currentStatus \in OUT_STATUSES

\* a return from OUT alone, not from the injured reserve or a suspension
justReturned_fromOutOnly(change) ==
    /\ change.previousStatus = "OUT"
    /\ change.currentStatus = "ACTIVE"

justReturned(change) ==
    /\ change.previousStatus \in OUT_STATUSES
    /\ change.currentStatus = "ACTIVE"

findPlayerById(playerId, snapshot) ==
    LET rostered == SelectSeq(AllRosterEntries(snapshot.teams), LAMBDA r : r.playerId = playerId)
        fas == SelectSeq(snapshot.freeAgentsTopN, LAMBDA f : f.player.id = playerId)
    IN  IF Len(rostered) > 0 THEN Some(rostered[1].player)
        ELSE IF Len(fas) > 0 THEN Some(fas[1].player)
        ELSE None

isStreamer(player) ==
    /\ OrZero(player.stats.projectedAvg) < STREAMER_THRESHOLD
    /\ OrZero(player.stats.projectedAvg) > 0

RECURSIVE SumGames(_)
SumGames(sg) == IF Len(sg) = 0 THEN 0 ELSE Head(sg).games + SumGames(Tail(sg))

RECURSIVE DedupById(_, _)
\* players of ps appended to acc unless a player of the same id is there
DedupById(acc, ps) ==
    IF Len(ps) = 0 THEN acc
    ELSE DedupById(IF \E i \in 1..Len(acc) : acc[i].id = Head(ps).id
                   THEN acc ELSE Append(acc, Head(ps)),
                   Tail(ps))

Alert(type, priority, icon, name, text, action, related, details) ==
    [ type |-> type, priority |-> priority,
      title |-> [icon |-> icon, name |-> name, text |-> text],
      playerName |-> name, action |-> action,
      relatedPlayers |-> related, details |-> details ]

\* ------------------------------------------------------------------------
\* smartAlerts: generateScheduleAlerts
\* ------------------------------------------------------------------------
generateScheduleAlerts(snapshot, myRoster) ==
    LET streamers == SelectSeq(myRoster, isStreamer)
        scheduled == SelectSeq(streamers, LAMBDA p : p.nbaTeamId \in DOMAIN snapshot.scheduleIndex)
        gamesOf(p) == Cardinality(snapshot.scheduleIndex[p.nbaTeamId].gamesByDay \cap Days)
        streamerGames == [i \in 1..Len(scheduled) |->
                             [player |-> scheduled[i], games |-> gamesOf(scheduled[i])]]
        total == SumGames(streamerGames)
        n == Len(streamerGames)
        warning(sg) ==
            IF snapshot.scheduleIndex[sg.player.nbaTeamId].gamesByDay \cap (0..2) = {}
            THEN << [player |-> sg.player.name, text |-> "no games next 3 days", games |-> 0] >>
            ELSE IF n * (sg.games + 2) <= total /\ sg.games <= 2
            THEN << [player |-> sg.player.name, text |-> "only N games this week", games |-> sg.games] >>
            ELSE <<>>
        warnings == Flatten([i \in 1..n |-> warning(streamerGames[i])])
    IN  IF Len(streamers) = 0 THEN <<>>
        ELSE IF Len(warnings) > 0
        THEN << Alert("WEEKLY_SUMMARY", "MEDIUM", "", 0, "", "none", <<>>, warnings) >>
        ELSE <<>>

\* ------------------------------------------------------------------------
\* smartAlerts: generateSmartAlerts
\* ------------------------------------------------------------------------
\* alerts of one entry of diff.statusChanges
StatusChangeAlerts(change, snapshot, myRosterPlayerIds, watchlistPlayerIds, careList) ==
    LET found == findPlayerById(change.playerId, snapshot)
        changedPlayer == Get(found)
        isMyPlayer == change.playerId \in myRosterPlayerIds
        wentOut == justWentOut(change)
        returned == justReturned(change)
        beneficiaries == SelectSeq(careList, LAMBDA p :
                             p.nbaTeamId = changedPlayer.nbaTeamId /\ p.id # changedPlayer.id)
        rosterBeneficiaries == SelectSeq(beneficiaries, LAMBDA p : p.id \in myRosterPlayerIds)
        watchlistBeneficiaries == SelectSeq(beneficiaries, LAMBDA p : p.id \in watchlistPlayerIds)
        names(ps) == [i \in 1..Len(ps) |-> ps[i].name]
    IN  IF IsNone(found) THEN <<>>
        ELSE IF isMyPlayer /\ wentOut
        THEN << Alert("ROSTER_INJURY", "HIGH", "ALARM", change.playerName, "OUT",
                      "Find a replacement on waivers", <<>>, <<>>) >>
        ELSE IF isMyPlayer /\ returned
        THEN << Alert("ROSTER_RETURN", "MEDIUM", "CHECK", change.playerName, "BACK",
                      "Move to starting lineup", <<>>, <<>>) >>
        ELSE IF ~isHighUsageStar(changedPlayer) THEN <<>>
        ELSE IF Len(beneficiaries) = 0 THEN <<>>
        ELSE   (IF wentOut /\ Len(rosterBeneficiaries) > 0
                THEN << Alert("TEAMMATE_INJURY", "HIGH", "UP", changedPlayer.name, "OUT",
                              "Start them if on bench", names(rosterBeneficiaries), <<>>) >>
                ELSE <<>>)
            \o (IF wentOut /\ Len(watchlistBeneficiaries) > 0
                THEN << Alert("WATCHLIST_OPPORTUNITY", "HIGH", "FIRE", changedPlayer.name, "OUT",
                              "Pick up now", names(watchlistBeneficiaries), <<>>) >>
                ELSE <<>>)
            \o (IF returned /\ Len(rosterBeneficiaries) > 0
                THEN << Alert("TEAMMATE_INJURY", "MEDIUM", "DOWN", changedPlayer.name, "BACK",
                              "Monitor their production", names(rosterBeneficiaries), <<>>) >>
                ELSE <<>>)
            \o (IF returned /\ Len(watchlistBeneficiaries) > 0
                THEN << Alert("WATCHLIST_OPPORTUNITY", "LOW", "WARN", changedPlayer.name, "BACK",
                              "Maybe remove from watchlist", names(watchlistBeneficiaries), <<>>) >>
                ELSE <<>>)

\* alert of one player of my roster for the status the snapshot shows
CurrentRosterAlerts(player) ==
    IF player.status \in OUT_STATUSES
    THEN << Alert("ROSTER_INJURY", "HIGH", "ALARM", player.name, player.status,
                  "none", <<>>, <<>>) >>
    ELSE IF player.status \in {"DAY_TO_DAY", "QUESTIONABLE", "DOUBTFUL"}
    THEN << Alert("ROSTER_INJURY", "MEDIUM", "WARN", player.name, player.status,
                  "none", <<>>, <<>>) >>
    ELSE <<>>

\* the star threshold in the place of the dropped-player threshold
isEliteDrop_starBar(seasonAvg) == seasonAvg >= STAR_THRESHOLD

isEliteDrop(seasonAvg) == seasonAvg >= DROPPED_PLAYER_THRESHOLD

\* the same alerts without the skip of my own team's transactions
TransactionAlerts_ownTeamToo(tx, snapshot, watchlistPlayerIds) ==
    LET player == findPlayerById(tx.playerId, snapshot)
        playerName == IF IsSome(tx.playerName) THEN Get(tx.playerName)
                      ELSE IF IsSome(player) THEN Get(player).name
                      ELSE tx.playerId
        seasonAvg == IF IsSome(tx.playerSeasonAvg) THEN Get(tx.playerSeasonAvg)
                     ELSE IF IsSome(player) THEN OrZero(Get(player).stats.seasonAvg)
                     ELSE 0
    IN     (IF tx.type = "DROP" /\ (tx.playerId \in watchlistPlayerIds \/ isEliteDrop(seasonAvg))
            THEN << Alert("HOT_WAIVER_ADD", "HIGH", "TARGET", playerName, "dropped by",
                          "none", <<>>, <<tx.teamId>>) >>
            ELSE <<>>)
        \o (IF tx.type = "ADD" /\ tx.playerId \in watchlistPlayerIds
            THEN << Alert("WATCHLIST_OPPORTUNITY", "HIGH", "CROSS", playerName, "SNIPED by",
                          "Remove from watchlist", <<>>, <<tx.teamId>>) >>
            ELSE <<>>)

\* alert of one league transaction
TransactionAlerts(tx, snapshot, watchlistPlayerIds) ==
    LET player == findPlayerById(tx.playerId, snapshot)
        playerName == IF IsSome(tx.playerName) THEN Get(tx.playerName)
                      ELSE IF IsSome(player) THEN Get(player).name
                      ELSE tx.playerId
        seasonAvg == IF IsSome(tx.playerSeasonAvg) THEN Get(tx.playerSeasonAvg)
                     ELSE IF IsSome(player) THEN OrZero(Get(player).stats.seasonAvg)
                     ELSE 0
        isWatchlistDrop == tx.playerId \in watchlistPlayerIds
    IN  IF tx.teamId = snapshot.myTeamId THEN <<>>
        ELSE   (IF tx.type = "DROP" /\ (isWatchlistDrop \/ isEliteDrop(seasonAvg))
                THEN << Alert("HOT_WAIVER_ADD", "HIGH", "TARGET", playerName, "dropped by",
                              "none", <<>>, <<tx.teamId>>) >>
                ELSE <<>>)
            \o (IF tx.type = "ADD" /\ tx.playerId \in watchlistPlayerIds
                THEN << Alert("WATCHLIST_OPPORTUNITY", "HIGH", "CROSS", playerName, "SNIPED by",
                              "Remove from watchlist", <<>>, <<tx.teamId>>) >>
                ELSE <<>>)

generateSmartAlerts(snapshot, diff, watchlist, recentTransactions) ==
    LET myRoster == rosterOf(findTeam(snapshot.teams, snapshot.myTeamId))
        myRosterPlayers == [i \in 1..Len(myRoster) |-> myRoster[i].player]
        myRosterPlayerIds == {myRoster[i].playerId : i \in 1..Len(myRoster)}
        watchIds == IF IsNone(watchlist) THEN <<>> ELSE Get(watchlist).playerIds
        watchlistPlayerIds == Range(watchIds)
        watchFound == SelectSeq([i \in 1..Len(watchIds) |-> findPlayerById(watchIds[i], snapshot)],
                                IsSome)
        \* playersWeCareAbout, all NBA teams in one list
        careList == DedupById(myRosterPlayers, [i \in 1..Len(watchFound) |-> Get(watchFound[i])])
    IN     Flatten([i \in 1..Len(diff.statusChanges) |->
                      StatusChangeAlerts(diff.statusChanges[i], snapshot, myRosterPlayerIds,
                                         watchlistPlayerIds, careList)])
        \o Flatten([i \in 1..Len(myRosterPlayers) |-> CurrentRosterAlerts(myRosterPlayers[i])])
        \o generateScheduleAlerts(snapshot, myRosterPlayers)
        \o Flatten([i \in 1..Len(recentTransactions) |->
                      TransactionAlerts(recentTransactions[i], snapshot, watchlistPlayerIds)])

\* any alert at all counts as worth sending
hasActionableAlerts_any(alerts) == Len(alerts) > 0

hasActionableAlerts(alerts) ==
    \E i \in 1..Len(alerts) : alerts[i].priority \in {"HIGH", "MEDIUM"}

\* ------------------------------------------------------------------------
\* injuryTracker
\* ------------------------------------------------------------------------
INJURY_STATUSES == {"OUT", "INJURY_RESERVE", "SUSPENSION"}

Max2(a, b) == IF a >= b THEN a ELSE b

\* Math.ceil(hours / 24), then Math.max(1, Math.round(days * 0.5))
estimateGamesMissed(startDate, endDate) ==
    LET daysMissed == (endDate - startDate + 23) \div 24
    IN  Max2(1, (daysMissed + 1) \div 2)

\* Math.round(hoursSinceUpdate / 48 * 3.5)
gamesElapsedOf(hoursSinceUpdate) == (14 * hoursSinceUpdate + 96) \div 192

\* a return from injury that leaves the current injury event open
closeInjuryEvent_leftOpen(existing, fetchedAt) == [existing EXCEPT !.currentlyInjured = FALSE]

\* the player returned from injury: close the current injury event
closeInjuryEvent(existing, fetchedAt) ==
    LET n == Len(existing.injuryEvents)
    IN  IF n > 0 /\ IsNone(existing.injuryEvents[n].endDate)
        THEN LET missed == estimateGamesMissed(existing.injuryEvents[n].startDate, fetchedAt)
             IN  [existing EXCEPT
                    !.injuryEvents[n].endDate = Some(fetchedAt),
                    !.injuryEvents[n].gamesMissed = missed,
                    !.totalGamesMissed = @ + missed,
                    !.currentlyInjured = FALSE]
        ELSE [existing EXCEPT !.currentlyInjured = FALSE]

\* one iteration of the loop over allPlayers
UpdatePlayerHistory(hist, player, fetchedAt) ==
    LET isCurrentlyInjured == player.status \in INJURY_STATUSES
    IN  IF player.id \notin DOMAIN hist
        THEN (player.id :>
                [ playerId          |-> player.id,
                  nbaTeamId         |-> player.nbaTeamId,
                  totalGamesMissed  |-> IF isCurrentlyInjured THEN 1 ELSE 0,
                  totalGamesTracked |-> 1,
                  injuryEvents      |-> IF isCurrentlyInjured
                                        THEN << [startDate |-> fetchedAt, status |-> player.status,
                                                 note |-> player.injuryNote, gamesMissed |-> 0,
                                                 endDate |-> None] >>
                                        ELSE <<>>,
                  currentlyInjured  |-> isCurrentlyInjured,
                  lastUpdated       |-> fetchedAt ]) @@ hist
        ELSE
          LET existing == hist[player.id]
              wasInjured == existing.currentlyInjured
              gamesElapsed == gamesElapsedOf(fetchedAt - existing.lastUpdated)
              tracked == existing.totalGamesTracked + Max2(0, gamesElapsed)
              n == Len(existing.injuryEvents)
              openEvent == n > 0 /\ IsNone(existing.injuryEvents[n].endDate)
              updated ==
                IF isCurrentlyInjured /\ ~wasInjured
                THEN [existing EXCEPT
                        !.injuryEvents = Append(@, [startDate |-> fetchedAt, status |-> player.status,
                                                    note |-> player.injuryNote, gamesMissed |-> 0,
                                                    endDate |-> None]),
                        !.currentlyInjured = TRUE]
                ELSE IF ~isCurrentlyInjured /\ wasInjured
                THEN closeInjuryEvent(existing, fetchedAt)
                ELSE IF isCurrentlyInjured /\ wasInjured /\ openEvent
                THEN [existing EXCEPT
                        !.injuryEvents[n].note = IF IsSome(player.injuryNote) THEN player.injuryNote ELSE @,
                        !.injuryEvents[n].gamesMissed = IF gamesElapsed > 0 THEN @ + gamesElapsed ELSE @,
                        !.totalGamesMissed = IF gamesElapsed > 0 THEN @ + gamesElapsed ELSE @]
                ELSE existing
          IN  [hist EXCEPT ![player.id] =
                  [updated EXCEPT !.totalGamesTracked = tracked,
                                  !.lastUpdated = fetchedAt,
                                  !.nbaTeamId = player.nbaTeamId]]

RECURSIVE UpdateAllPlayers(_, _, _)
UpdateAllPlayers(hist, players, fetchedAt) ==
    IF Len(players) = 0 THEN hist
    ELSE UpdateAllPlayers(UpdatePlayerHistory(hist, Head(players), fetchedAt),
                          Tail(players), fetchedAt)

updateInjuryHistory(snapshot, previousHistory) ==
    LET entries == AllRosterEntries(snapshot.teams)
        allPlayers == [i \in 1..Len(snapshot.freeAgentsTopN) |-> snapshot.freeAgentsTopN[i].player]
                      \o [i \in 1..Len(entries) |-> entries[i].player]
    IN  UpdateAllPlayers(IF IsNone(previousHistory) THEN <<>> ELSE Get(previousHistory),
                         allPlayers, snapshot.fetchedAt)

\* ------------------------------------------------------------------------
\* storage (file adapter)
\* ------------------------------------------------------------------------
\* history.push(fetchedAt): the newest timestamp last
storeSnapshotHistory_push(hist, fetchedAt) ==
    LET h == hist \o <<fetchedAt>>
    IN  IF Len(h) > MAX_HISTORY_LENGTH THEN SubSeq(h, 1, MAX_HISTORY_LENGTH) ELSE h

\* history.unshift(fetchedAt), cut to MAX_HISTORY_LENGTH
storeSnapshotHistory(hist, fetchedAt) ==
    LET h == <<fetchedAt>> \o hist
    IN  IF Len(h) > MAX_HISTORY_LENGTH THEN SubSeq(h, 1, MAX_HISTORY_LENGTH) ELSE h

\* a read that never finds the latest snapshot
getLatestSnapshot_missing(latestFile) == None

getLatestSnapshot(latestFile) == latestFile

getPreviousSnapshot(hist, files) ==
    IF Len(hist) < 2 THEN None
    ELSE IF hist[2] \in DOMAIN files THEN Some(files[hist[2]]) ELSE None

\* ------------------------------------------------------------------------
\* espnClient: getLeagueSnapshot
\* ------------------------------------------------------------------------
currentSeasonId == "002026"     \* `00${settings.seasonId}`

\* season average of the player lookup: the first actual-stats line of the
\* current season, 0 without one
lookupSeasonAvg(espnPlayer) ==
    LET hits == SelectSeq(espnPlayer.stats,
                          LAMBDA st : st.statSourceId = 0 /\ st.id = currentSeasonId)
    IN  IF Len(hits) = 0 THEN 0 ELSE hits[1].appliedAverage

\* raw: what the ESPN endpoints answered (settings, teams, freeAgents,
\* nbaSchedule, rawTransactions)
\* a filter that lets every transaction through
isValidTransaction_unchecked(tx, rosterState) == TRUE

\* the filter of validatedTransactions
isValidTransaction(tx, rosterState) ==
    LET isOnRoster == <<tx.playerId, tx.teamId>> \in rosterState
    IN  IF tx.type = "DROP" THEN ~isOnRoster
        ELSE IF tx.type = "ADD" THEN isOnRoster
        ELSE TRUE

getLeagueSnapshot(raw) ==
    LET rostered == Flatten([i \in 1..Len(raw.teams) |->
                        [j \in 1..Len(raw.teams[i].roster) |->
                            [team |-> raw.teams[i].id, player |-> raw.teams[i].roster[j]]]])
        rosterState == {<<rostered[i].player.id, rostered[i].team>> : i \in 1..Len(rostered)}
        known == [i \in 1..Len(rostered) |-> rostered[i].player] \o raw.freeAgents
        playerLookup(id) ==
            LET onRoster == SelectSeq(rostered, LAMBDA r : r.player.id = id)
                fas == SelectSeq(raw.freeAgents, LAMBDA f : f.id = id)
            IN  IF Len(onRoster) > 0
                THEN Some([name |-> id, seasonAvg |-> lookupSeasonAvg(onRoster[Len(onRoster)].player)])
                ELSE IF Len(fas) > 0
                THEN Some([name |-> id, seasonAvg |-> lookupSeasonAvg(fas[1])])
                ELSE None
        validatedTransactions == SelectSeq(raw.rawTransactions,
                                           LAMBDA tx : isValidTransaction(tx, rosterState))
        enrich(tx) ==
            LET info == playerLookup(tx.playerId)
            IN  [ teamId          |-> tx.teamId,
                  type            |-> tx.type,
                  playerId        |-> tx.playerId,
                  timestamp       |-> tx.timestamp,
                  playerName      |-> IF IsSome(info) THEN Some(Get(info).name) ELSE None,
                  playerSeasonAvg |-> IF IsSome(info) THEN Some(Get(info).seasonAvg) ELSE None ]
    IN  [ settings           |-> raw.settings,
          teams              |-> raw.teams,
          freeAgents         |-> raw.freeAgents,
          nbaSchedule        |-> raw.nbaSchedule,
          recentTransactions |-> [i \in 1..Len(validatedTransactions) |->
                                     enrich(validatedTransactions[i])] ]

\* ------------------------------------------------------------------------
\* What ESPN can answer (the inputs of a refresh)
\* ------------------------------------------------------------------------
MaxWeek == 2        \* matchup periods 1..MaxWeek

\* the "owner" of a player nobody rosters: an id that is no team's
FreeAgentPool == CHOOSE t \in 0..Cardinality(TeamIds) : t \notin TeamIds

\* where each player of the pool can be (a fantasy team or the free agents)
OwnerChoices == (1 :> {1, 2}) @@ (2 :> {1, 2}) @@ (3 :> {2, FreeAgentPool})
\* the injuryStatus ESPN can report for each player
StatusChoices == (1 :> {NoStatus, "DAY_TO_DAY", "OUT"}) @@ (2 :> {NoStatus, "IR"})
                 @@ (3 :> {NoStatus, "SSPD"})

Owners == {o \in [PlayerIds -> TeamIds \cup {FreeAgentPool}] : \A p \in PlayerIds : o[p] \in OwnerChoices[p]}
Injuries == {st \in [PlayerIds -> {NoStatus, "DAY_TO_DAY", "OUT", "IR", "SSPD"}] :
                \A p \in PlayerIds : st[p] \in StatusChoices[p]}

NoSchedule == <<>>
\* NBA team 1 plays on odd scoring periods, NBA team 2 on even ones
FullSchedule == << [id |-> 1, proGamesByScoringPeriod |-> Some({1, 3, 5, 7, 9, 11, 13, 15})],
                   [id |-> 2, proGamesByScoringPeriod |-> Some({2, 4, 6, 8, 10, 12, 14})] >>
Schedules == {NoSchedule, FullSchedule}

WatchLists == {<<>>, <<1, 3>>}

\* what getRecentTransactions can return at time t: nothing, any one add or
\* drop (real or phantom), or a drop by one team with the add of the same
\* player by the other team
TxCandidates(t) == [teamId : TeamIds, type : {"ADD", "DROP"}, playerId : PlayerIds, timestamp : {t}]

RawTransactionLists(t) ==
    {<<>>} \cup {<<tx>> : tx \in TxCandidates(t)}
    \cup {<< [teamId |-> a, type |-> "DROP", playerId |-> p, timestamp |-> t],
             [teamId |-> b, type |-> "ADD", playerId |-> p, timestamp |-> t] >> :
             a \in TeamIds, b \in TeamIds, p \in {1, 3}}

\* the raw ESPN answers for one placement of the pool
RawEspn(owner, inj, week, sched, watchList, rawTx) ==
    LET rosterOfTeam(t) == LET ids == SeqOfSet({p \in PlayerIds : owner[p] = t})
                           IN  [i \in 1..Len(ids) |-> ESPNPlayerOf(ids[i], inj[ids[i]])]
        order == SeqOfSet(TeamIds)
    IN  [ settings    |-> [id |-> leagueId, seasonId |-> seasonId,
                           scoringPeriodId |-> 1 + 7 * (week - 1),
                           currentMatchupPeriod |-> week],
          teams       |-> [i \in 1..Len(order) |->
                             [id |-> order[i], roster |-> rosterOfTeam(order[i]),
                              watchList |-> IF order[i] = myTeamId THEN watchList ELSE <<>>]],
          freeAgents  |-> rosterOfTeam(FreeAgentPool),
          nbaSchedule |-> sched,
          rawTransactions |-> rawTx ]

\* ------------------------------------------------------------------------
\* telegram: sendSmartAlerts
\* ------------------------------------------------------------------------
\* the alerts of the message, in message order
messageOf(alerts) ==
    SelectSeq(alerts, LAMBDA a : a.priority = "HIGH")
    \o SelectSeq(alerts, LAMBDA a : a.priority = "MEDIUM")

\* outcome: "sent" (Telegram answered 2xx), "rejected" (non-2xx or network
\* error: sendTelegramMessage returns false), "noconfig" (getConfig throws)
TelegramOutcomes == {"sent", "rejected", "noconfig"}

\* a send that reports success whatever Telegram did
sendSmartAlerts_alwaysTrue(alerts, outcome) ==
    [returned |-> TRUE, posted |-> IF outcome = "noconfig" THEN None ELSE Some(messageOf(alerts))]

sendSmartAlerts(alerts, outcome) ==
    IF Len(alerts) = 0 THEN [returned |-> TRUE, posted |-> None]
    ELSE IF outcome = "noconfig" THEN [returned |-> FALSE, posted |-> None]
    ELSE [returned |-> outcome = "sent", posted |-> Some(messageOf(alerts))]

\* ------------------------------------------------------------------------
\* /api/refresh
\* ------------------------------------------------------------------------
\* the watchlist of the storage in the place of ESPN's
espnWatchlist_stored(data) == storedWatchlist

\* the watchlist handed to generateSmartAlerts: my team's ESPN watchList
espnWatchlist(data) ==
    LET mine == SelectSeq(data.teams, LAMBDA t : t.id = myTeamId)
        ids == IF Len(mine) = 0 THEN <<>> ELSE mine[1].watchList
    IN  IF Len(ids) > 0 THEN Some([playerIds |-> ids]) ELSE None

snapshotOf(data, fetchedAt) ==
    buildLeagueSnapshot([settings |-> data.settings, teams |-> data.teams,
                         freeAgents |-> data.freeAgents, nbaSchedule |-> data.nbaSchedule],
                        fetchedAt)

\* The part of a successful refresh that follows the ESPN fetch: build the
\* snapshot, diff it against the stored one, store, update the injury
\* history, generate the alerts and notify.  getLeagueSnapshot hands the
\* settings, teams, free agents and schedule of raw through unchanged, so
\* the snapshot is built from raw; rawTxs are the transaction lists ESPN can
\* report next to it.
RefreshOk(raw, rawTxs) ==
    /\ latest' = Some(snapshotOf(raw, now'))
    /\ lastDiff' = Some(calculateSnapshotDiff(getLatestSnapshot(latest), Get(latest')))
    /\ snapshots' = (Get(latest').fetchedAt :> Get(latest')) @@ snapshots
    /\ history' = storeSnapshotHistory(history, Get(latest').fetchedAt)
    /\ injuryHistory' = Some(updateInjuryHistory(Get(latest'), injuryHistory))
    /\ \E rawTx \in rawTxs :
          /\ espnData' = Some(getLeagueSnapshot([raw EXCEPT !.rawTransactions = rawTx]))
          /\ smartAlerts' = generateSmartAlerts(Get(latest'), Get(lastDiff'),
                                                espnWatchlist(Get(espnData')),
                                                Get(espnData').recentTransactions)
          /\ \E outcome \in TelegramOutcomes :
                LET attempt == hasActionableAlerts(smartAlerts')
                    sent == sendSmartAlerts(smartAlerts', outcome)
                IN  response' = Some([ status        |-> 200,
                                       success       |-> TRUE,
                                       diff          |-> lastDiff',
                                       sendAttempted |-> attempt,
                                       telegram      |-> IF attempt THEN Some(outcome) ELSE None,
                                       posted        |-> IF attempt THEN sent.posted ELSE None,
                                       alertSent     |-> attempt /\ sent.returned ])
    /\ UNCHANGED <<pc, locals, completed, storedWatchlist>>
    /\ UNCHANGED EnvVars

Refresh ==
    /\ IsNone(response)
    /\ now' = now + CronIntervalHours
    /\ \E owner \in Owners, inj \in Injuries, week \in 1..MaxWeek, sched \in Schedules,
          watchList \in WatchLists :
          RefreshOk(RawEspn(owner, inj, week, sched, watchList, <<>>),
                    RawTransactionLists(now))
    /\ UNCHANGED <<request, alertLog>>

\* a failed refresh that had entered its timestamp in the history before
\* the fetch threw
RefreshFailed_afterStore ==
    /\ IsNone(response)
    /\ now' = now + CronIntervalHours
    /\ espnData' = None
    /\ smartAlerts' = <<>>
    /\ response' = Some([ status |-> 500, success |-> FALSE, diff |-> None,
                          sendAttempted |-> FALSE, telegram |-> None, posted |-> None,
                          alertSent |-> FALSE ])
    /\ history' = storeSnapshotHistory(history, now')
    /\ UNCHANGED <<latest, snapshots, lastDiff, injuryHistory>>
    /\ UNCHANGED <<pc, locals, completed, storedWatchlist, request, alertLog>>
    /\ UNCHANGED EnvVars

\* a refresh whose ESPN fetch threw (settings, rosters, matchups or free
\* agents still failing after the retries)
RefreshFailed ==
    /\ IsNone(response)
    /\ now' = now + CronIntervalHours
    /\ espnData' = None
    /\ smartAlerts' = <<>>
    /\ response' = Some([ status |-> 500, success |-> FALSE, diff |-> None,
                          sendAttempted |-> FALSE, telegram |-> None, posted |-> None,
                          alertSent |-> FALSE ])
    /\ UNCHANGED <<latest, history, snapshots, lastDiff, injuryHistory>>
    /\ UNCHANGED <<pc, locals, completed, storedWatchlist, request, alertLog>>
    /\ UNCHANGED EnvVars

\* storage as a first refresh at time 0 leaves it
StoredAfterFirst(raw) ==
    LET snapshot == snapshotOf(getLeagueSnapshot(raw), 0)
    IN  /\ latest = Some(snapshot)
        /\ history = <<0>>
        /\ snapshots = (0 :> snapshot)
        /\ lastDiff = Some(calculateSnapshotDiff(None, snapshot))
        /\ injuryHistory = Some(updateInjuryHistory(snapshot, None))

EmptyStorage ==
    /\ latest = None
    /\ history = <<>>
    /\ snapshots = <<>>
    /\ lastDiff = None
    /\ injuryHistory = None

\* nothing but the refresh route is exercised
EmptyKv == [ latest |-> None, history |-> <<>>, snapshots |-> <<>>, lastDiff |-> None,
             injuryHistory |-> None, watchlist |-> None ]

MaxWatchOverlap == 2
MaxWatchRequests == 3

\* the handler executions of /api/watchlist that can be in progress at once
WatchSlots == 1..MaxWatchOverlap

NoWatchCalls == [exec |-> [slot \in WatchSlots |-> None], completed |-> <<>>]

QuietEnv ==
    /\ watchCalls = NoWatchCalls
    /\ espnTopics = <<>>
    /\ kv = EmptyKv
    /\ retry = None
    /\ risk = None

\* the two callers of the handler: the cron job (GET) and the dashboard's
\* manual refresh (POST, which calls GET)
Requests == {"cron", "manual"}

NoLocals == [ espnData |-> None, snapshot |-> None, previousSnapshot |-> None,
              diff |-> None, previousInjuryHistory |-> None, smartAlerts |-> <<>> ]

NoExecution ==
    /\ pc = [p \in Requests |-> "idle"]
    /\ locals = [p \in Requests |-> NoLocals]
    /\ completed = <<>>

\* placements of the pool at the earlier refresh
InitOwners == {o \in Owners : o[1] = myTeamId /\ o[2] = otherTeamId}

\* Every behaviour observes one refresh.  It starts either from the empty
\* storage of a fresh deployment or from the storage an earlier refresh
\* left behind.
Init ==
    /\ now = 0
    /\ espnData = None
    /\ smartAlerts = <<>>
    /\ response = None
    /\ NoExecution
    /\ storedWatchlist = None
    /\ request = None
    /\ alertLog = <<>>
    /\ QuietEnv
    /\ \/ EmptyStorage
       \/ \E owner \in InitOwners, inj \in Injuries :
             StoredAfterFirst(RawEspn(owner, inj, 1, FullSchedule, <<>>, <<>>))

Next == Refresh \/ RefreshFailed

Spec == Init /\ [][Next]_vars

\* ------------------------------------------------------------------------
\* /api/refresh with its authorization, and /api/watchlist
\* ------------------------------------------------------------------------
\* CRON_SECRET: unset, empty or a secret
CronSecrets == {None, Some(""), Some("s3cret")}

\* an Authorization header value is the sequence of its words
Bearer(secret) == <<"Bearer", secret>>

\* a request to /api/refresh: the method, the authorization and
\* x-manual-refresh headers (optional), under a value of CRON_SECRET
RefreshRequests ==
    [ method        : {"GET", "POST"},
      authorization : {None, Some(Bearer("s3cret")), Some(Bearer("guess")), Some(<<"s3cret">>)},
      manualRefresh : {None, Some("true"), Some("1")},
      cronSecret    : CronSecrets ]

\* POST sets x-manual-refresh: true and calls GET
headersOf(req) ==
    [ authorization |-> req.authorization,
      manualRefresh |-> IF req.method = "POST" THEN Some("true") ELSE req.manualRefresh ]

\* the condition under which GET answers 401
\* the check without the manual-refresh exemption
isUnauthorized_manualToo(req) ==
    /\ IsSome(req.cronSecret) /\ Get(req.cronSecret) # ""
    /\ headersOf(req).authorization # Some(Bearer(Get(req.cronSecret)))

isUnauthorized(req) ==
    LET authHeader == headersOf(req).authorization
        cronSecret == req.cronSecret
        isManualRefresh == headersOf(req).manualRefresh = Some("true")
    IN  /\ IsSome(cronSecret) /\ Get(cronSecret) # ""
        /\ ~isManualRefresh
        /\ authHeader # Some(Bearer(Get(cronSecret)))

\* what ESPN answers in the behaviours that also exercise the two routes
ApiInjuries == {st \in Injuries : st[1] # "DAY_TO_DAY" /\ st[2] = NoStatus /\ st[3] = NoStatus}
ApiOwners == {o \in Owners : o[3] = FreeAgentPool}
ApiTransactionLists(t) ==
    { <<>>,
      << [teamId |-> otherTeamId, type |-> "ADD", playerId |-> 1, timestamp |-> t] >>,
      << [teamId |-> otherTeamId, type |-> "DROP", playerId |-> 2, timestamp |-> t] >> }

\* GET/POST /api/refresh, rejected
RefreshUnauthorized ==
    /\ IsNone(response)
    /\ \E req \in RefreshRequests :
          /\ isUnauthorized(req)
          /\ request' = Some(req)
    /\ response' = Some([ status |-> 401, success |-> FALSE, diff |-> None,
                          sendAttempted |-> FALSE, telegram |-> None, posted |-> None,
                          alertSent |-> FALSE ])
    /\ UNCHANGED <<now, latest, history, snapshots, lastDiff, injuryHistory>>
    /\ UNCHANGED <<espnData, smartAlerts, pc, locals, completed, storedWatchlist, alertLog>>
    /\ UNCHANGED EnvVars

\* GET/POST /api/refresh, let through
RefreshAuthorized ==
    /\ IsNone(response)
    /\ \E req \in RefreshRequests :
          /\ ~isUnauthorized(req)
          /\ request' = Some(req)
    /\ now' = now + CronIntervalHours
    /\ \E owner \in ApiOwners, inj \in ApiInjuries, watchList \in WatchLists :
          RefreshOk(RawEspn(owner, inj, 1, FullSchedule, watchList, <<>>),
                    ApiTransactionLists(now))
    /\ UNCHANGED alertLog

\* the player ids the dashboard puts on the stored watchlist
StoredWatchIds == {2, 3}

\* POST /api/watchlist with a valid playerId
WatchlistPOST(playerId) ==
    /\ IsNone(response)
    /\ LET existing == IF IsSome(storedWatchlist) THEN Get(storedWatchlist)
                       ELSE [playerIds |-> <<>>, lastUpdated |-> now]
       IN  /\ ~Contains(existing.playerIds, playerId)
           /\ storedWatchlist' = Some([ playerIds |-> Append(existing.playerIds, playerId),
                                  lastUpdated |-> now ])
    /\ UNCHANGED <<now, latest, history, snapshots, lastDiff, injuryHistory>>
    /\ UNCHANGED <<espnData, smartAlerts, response, pc, locals, completed, request, alertLog>>
    /\ UNCHANGED EnvVars

\* DELETE /api/watchlist with a valid playerId
WatchlistDELETE(playerId) ==
    /\ IsNone(response)
    /\ IsSome(storedWatchlist)
    /\ storedWatchlist' = Some([ playerIds |-> SelectSeq(Get(storedWatchlist).playerIds,
                                                   LAMBDA id : id # playerId),
                           lastUpdated |-> now ])
    /\ UNCHANGED <<now, latest, history, snapshots, lastDiff, injuryHistory>>
    /\ UNCHANGED <<espnData, smartAlerts, response, pc, locals, completed, request, alertLog>>
    /\ UNCHANGED EnvVars

ApiNext ==
    \/ RefreshUnauthorized
    \/ RefreshAuthorized
    \/ RefreshFailed
    \/ \E playerId \in StoredWatchIds : WatchlistPOST(playerId) \/ WatchlistDELETE(playerId)

ApiInit ==
    /\ Init
    /\ \/ EmptyStorage
       \/ \E owner \in InitOwners, inj \in ApiInjuries :
             StoredAfterFirst(RawEspn(owner, inj, 1, FullSchedule, <<>>, <<>>))

ApiSpec == ApiInit /\ [][ApiNext]_vars

\* ------------------------------------------------------------------------
\* /api/refresh, await by await
\* ------------------------------------------------------------------------
\* Each execution of the handler is at one of its awaits; an action is the
\* code that runs when that await resolves.  The requests are authorized.
MaxRequests == 3    \* requests of a behaviour whose requests do not overlap
MaxOverlapping == 2 \* requests of a behaviour whose requests arrive at any time

Executing == {p \in Requests : pc[p] # "idle"}

\* what ESPN answers while the executions run: the placement stays, the
\* injury statuses of players 1 and 2 move
StepOwner == CHOOSE o \in InitOwners : o[3] = otherTeamId
StepInjuries == {st \in Injuries : st[1] # "DAY_TO_DAY" /\ st[3] = NoStatus}
StepWorlds == {RawEspn(StepOwner, inj, 1, FullSchedule, <<>>, <<>>) : inj \in StepInjuries}

Answer(p, success, alertSent) ==
    [ request |-> p, success |-> success,
      snapshot |-> locals'[p].snapshot,
      previousSnapshot |-> locals'[p].previousSnapshot,
      diff |-> locals'[p].diff,
      alertSent |-> alertSent ]

StorageVars == <<latest, history, snapshots, lastDiff, injuryHistory>>
ObservedVars == <<espnData, smartAlerts, response, storedWatchlist, request, alertLog,
                  espnTopics, kv, retry, risk, watchCalls>>

\* GET is called (by the cron job, or by POST for a manual refresh) and
\* awaits getLeagueSnapshot
Request(p) ==
    /\ pc[p] = "idle"
    /\ pc' = [pc EXCEPT ![p] = "getLeagueSnapshot"]
    /\ locals' = [locals EXCEPT ![p] = NoLocals]
    /\ UNCHANGED <<now, completed>>
    /\ UNCHANGED StorageVars
    /\ UNCHANGED ObservedVars

\* getLeagueSnapshot resolved: build the snapshot, await getLatestSnapshot
FetchOk(p) ==
    /\ pc[p] = "getLeagueSnapshot"
    /\ now' = now + 1
    /\ \E raw \in StepWorlds :
          locals' = [locals EXCEPT ![p].espnData = Some(getLeagueSnapshot(raw)),
                                   ![p].snapshot = Some(snapshotOf(raw, now'))]
    /\ pc' = [pc EXCEPT ![p] = "getLatestSnapshot"]
    /\ UNCHANGED completed
    /\ UNCHANGED StorageVars
    /\ UNCHANGED ObservedVars

\* getLeagueSnapshot threw: answer 500
FetchFailed(p) ==
    /\ pc[p] = "getLeagueSnapshot"
    /\ pc' = [pc EXCEPT ![p] = "idle"]
    /\ locals' = locals
    /\ completed' = Append(completed, Answer(p, FALSE, FALSE))
    /\ UNCHANGED now
    /\ UNCHANGED StorageVars
    /\ UNCHANGED ObservedVars

\* getLatestSnapshot resolved: calculate the diff, await storeSnapshot
GetLatest(p) ==
    /\ pc[p] = "getLatestSnapshot"
    /\ LET previousSnapshot == getLatestSnapshot(latest)
       IN  locals' = [locals EXCEPT
                         ![p].previousSnapshot = Some(previousSnapshot),
                         ![p].diff = Some(calculateSnapshotDiff(previousSnapshot,
                                                                Get(locals[p].snapshot)))]
    /\ pc' = [pc EXCEPT ![p] = "storeSnapshot"]
    /\ UNCHANGED <<now, completed>>
    /\ UNCHANGED StorageVars
    /\ UNCHANGED ObservedVars

\* storeSnapshot wrote the snapshot, the latest and the history: await storeLastDiff
StoreSnapshot(p) ==
    /\ pc[p] = "storeSnapshot"
    /\ LET snapshot == Get(locals[p].snapshot)
       IN  /\ snapshots' = (snapshot.fetchedAt :> snapshot) @@ snapshots
           /\ latest' = Some(snapshot)
           /\ history' = storeSnapshotHistory(history, snapshot.fetchedAt)
    /\ pc' = [pc EXCEPT ![p] = "storeLastDiff"]
    /\ UNCHANGED <<now, completed, locals, lastDiff, injuryHistory>>
    /\ UNCHANGED ObservedVars

\* storeLastDiff wrote the diff: await getInjuryHistory
StoreLastDiff(p) ==
    /\ pc[p] = "storeLastDiff"
    /\ lastDiff' = locals[p].diff
    /\ pc' = [pc EXCEPT ![p] = "getInjuryHistory"]
    /\ UNCHANGED <<now, completed, locals, latest, history, snapshots, injuryHistory>>
    /\ UNCHANGED ObservedVars

\* getInjuryHistory resolved: await storeInjuryHistory
GetInjuryHistory(p) ==
    /\ pc[p] = "getInjuryHistory"
    /\ locals' = [locals EXCEPT ![p].previousInjuryHistory = Some(injuryHistory)]
    /\ pc' = [pc EXCEPT ![p] = "storeInjuryHistory"]
    /\ UNCHANGED <<now, completed>>
    /\ UNCHANGED StorageVars
    /\ UNCHANGED ObservedVars

\* storeInjuryHistory wrote the updated history: generate the alerts, then
\* await sendSmartAlerts if an alert is actionable, answer otherwise
StoreInjuryHistory(p) ==
    /\ pc[p] = "storeInjuryHistory"
    /\ injuryHistory' = Some(updateInjuryHistory(Get(locals[p].snapshot),
                                                 Get(locals[p].previousInjuryHistory)))
    /\ locals' = [locals EXCEPT ![p].smartAlerts =
                     generateSmartAlerts(Get(locals[p].snapshot), Get(locals[p].diff),
                                         espnWatchlist(Get(locals[p].espnData)),
                                         Get(locals[p].espnData).recentTransactions)]
    /\ IF hasActionableAlerts(locals'[p].smartAlerts)
       THEN /\ pc' = [pc EXCEPT ![p] = "sendSmartAlerts"]
            /\ UNCHANGED completed
       ELSE /\ pc' = [pc EXCEPT ![p] = "idle"]
            /\ completed' = Append(completed, Answer(p, TRUE, FALSE))
    /\ UNCHANGED <<now, latest, history, snapshots, lastDiff>>
    /\ UNCHANGED ObservedVars

\* sendSmartAlerts resolved or threw: answer
SendSmartAlerts(p) ==
    /\ pc[p] = "sendSmartAlerts"
    /\ pc' = [pc EXCEPT ![p] = "idle"]
    /\ locals' = locals
    /\ \E outcome \in TelegramOutcomes :
          completed' = Append(completed,
                              Answer(p, TRUE, sendSmartAlerts(locals[p].smartAlerts, outcome).returned))
    /\ UNCHANGED now
    /\ UNCHANGED StorageVars
    /\ UNCHANGED ObservedVars

Resume(p) ==
    \/ FetchOk(p)
    \/ FetchFailed(p)
    \/ GetLatest(p)
    \/ StoreSnapshot(p)
    \/ StoreLastDiff(p)
    \/ GetInjuryHistory(p)
    \/ StoreInjuryHistory(p)
    \/ SendSmartAlerts(p)

StepInit ==
    /\ now = 0
    /\ espnData = None
    /\ smartAlerts = <<>>
    /\ response = None
    /\ NoExecution
    /\ storedWatchlist = None
    /\ request = None
    /\ alertLog = <<>>
    /\ QuietEnv
    /\ EmptyStorage

\* requests that arrive at any time
ConcRequest(p) == Len(completed) + Cardinality(Executing) < MaxOverlapping /\ Request(p)

ConcNext == \E p \in Requests : ConcRequest(p) \/ Resume(p)

ConcSpec == StepInit /\ [][ConcNext]_vars

\* requests that arrive only while no execution is in progress
SeqRequest(p) == Executing = {} /\ Len(completed) < MaxRequests /\ Request(p)

SeqNext == \E p \in Requests : SeqRequest(p) \/ Resume(p)

SeqSpec == StepInit /\ [][SeqNext]_vars

\* ------------------------------------------------------------------------
\* Views of the state after a refresh
\* ------------------------------------------------------------------------
Refreshed == IsSome(response) /\ Get(response).success

curSnapshot == Get(latest)
prevSnapshot == getPreviousSnapshot(history, snapshots)
curDiff == Get(lastDiff)
curTransactions == Get(espnData).recentTransactions
curWatchIds == LET w == espnWatchlist(Get(espnData))
               IN  IF IsNone(w) THEN {} ELSE Range(Get(w).playerIds)

RosterIds(snapshot, teamId) ==
    LET r == rosterOf(findTeam(snapshot.teams, teamId))
    IN  {r[i].playerId : i \in 1..Len(r)}

RosteredIds(snapshot) == UNION {RosterIds(snapshot, t) : t \in TeamIds}
FreeAgentIds(snapshot) == {snapshot.freeAgentsTopN[i].player.id : i \in 1..Len(snapshot.freeAgentsTopN)}

StatusIn(snapshot, p) == Get(findPlayerById(p, snapshot)).status

\* two snapshots that differ at most in fetchedAt
SameContent(a, b) == [a EXCEPT !.fetchedAt = 0] = [b EXCEPT !.fetchedAt = 0]

Changes == Range(curDiff.statusChanges)
Alerts == Range(smartAlerts)

WentOut(c) == c.previousStatus \notin OUT_STATUSES /\ c.currentStatus \in OUT_STATUSES
Returned(c) == c.previousStatus \in OUT_STATUSES /\ c.currentStatus = "ACTIVE"

\* an alert that tells of the status change of a teammate
IsTeammateAlert(a) ==
    \/ a.type \in {"TEAMMATE_INJURY", "TEAMMATE_RETURN"}
    \/ a.type = "WATCHLIST_OPPORTUNITY" /\ a.title.text \in {"OUT", "BACK"}

\* some other player of p's NBA team is on my roster or on the watchlist
HasCaredTeammate(p) ==
    \E q \in (RosterIds(curSnapshot, myTeamId) \cup curWatchIds) \cap PlayerIds :
        q # p /\ PoolProTeamId[q] = PoolProTeamId[p]

\* ------------------------------------------------------------------------
\* Claims
\* ------------------------------------------------------------------------

\* C1 (as claimed): a refresh whose snapshot equals the stored one, with no
\* recent transactions, sends no message (alertSent is false).
C1_NoChangeNoMessage ==
    (/\ Refreshed
     /\ IsSome(prevSnapshot)
     /\ SameContent(Get(prevSnapshot), curSnapshot)
     /\ Len(curTransactions) = 0)
    => ~Get(response).alertSent

\* the successful executions, in the order they answered
Succeeded == SelectSeq(completed, LAMBDA r : r.success)

\* the players whose status differs between two snapshots
ChangedBetween(previous, current) ==
    {p \in RosteredIds(previous) \cap RosteredIds(current) :
        StatusIn(previous, p) # StatusIn(current, p)}

\* r's diff is the comparison of snapshot previous (optional) with r's snapshot
ComparesWith(r, previous) ==
    LET diff == Get(r.diff)
        current == Get(r.snapshot)
        changes == Range(diff.statusChanges)
    IN  /\ Get(r.previousSnapshot) = previous
        /\ {c.playerId : c \in changes}
             = (IF IsNone(previous) THEN {} ELSE ChangedBetween(Get(previous), current))
        /\ \A c \in changes : /\ c.previousStatus = StatusIn(Get(previous), c.playerId)
                              /\ c.currentStatus = StatusIn(current, c.playerId)
        /\ IsNone(previous) =>
              /\ Len(diff.newTopWaiverCandidates) = 0
              /\ Len(diff.removedTopWaiverCandidates) = 0
              /\ ~diff.weekChanged
              /\ ~diff.significantChanges

\* C2: in a sequence of non-overlapping refreshes, the diff of each
\* successful refresh compares the snapshot stored by the successful refresh
\* just before it (none on the first, whose diff is empty) with its own
\* snapshot, and an execution reads the previous snapshot before it stores
\* its own.
C2_DiffAgainstPrecedingSnapshot ==
    /\ \A i \in 1..Len(Succeeded) :
          ComparesWith(Succeeded[i],
                       IF i = 1 THEN None ELSE Some(Get(Succeeded[i - 1].snapshot)))
    /\ \A p \in Requests :
          /\ pc[p] \in {"getLeagueSnapshot", "getLatestSnapshot"} =>
                /\ IsNone(locals[p].previousSnapshot)
                /\ IsSome(locals[p].snapshot) =>
                      Get(locals[p].snapshot).fetchedAt \notin DOMAIN snapshots
          /\ (IsSome(locals[p].snapshot) /\ latest = locals[p].snapshot) =>
                IsSome(locals[p].previousSnapshot)

C2_Witness ==
    /\ Len(Succeeded) = 3
    /\ Len(completed) = 3
    /\ Len(Get(Succeeded[1].diff).statusChanges) = 0
    /\ Len(Get(Succeeded[2].diff).statusChanges) = 2
    /\ Len(Get(Succeeded[3].diff).statusChanges) = 1
    /\ Get(Succeeded[3].previousSnapshot) = Succeeded[2].snapshot
    /\ Succeeded[3].snapshot = latest

\* C3 (as claimed): the handler processes one refresh at a time: no two
\* executions are in progress at once.
C3_OneRefreshAtATime == Cardinality(Executing) <= 1

\* C4: a status change of a player of my roster from an available status to
\* OUT / INJURY_RESERVE / SUSPENSION yields a HIGH ROSTER_INJURY alert, one
\* from those to ACTIVE a MEDIUM ROSTER_RETURN alert, for that player, and
\* the refresh attempts to send a Telegram message.
C4_RosterStatusChangeAlerts ==
    Refreshed =>
        \A c \in Changes :
            c.playerId \in RosterIds(curSnapshot, myTeamId) =>
                /\ WentOut(c) =>
                      /\ \E a \in Alerts : a.type = "ROSTER_INJURY" /\ a.priority = "HIGH"
                                           /\ a.playerName = c.playerId
                      /\ Get(response).sendAttempted
                /\ Returned(c) =>
                      /\ \E a \in Alerts : a.type = "ROSTER_RETURN" /\ a.priority = "MEDIUM"
                                           /\ a.playerName = c.playerId
                      /\ Get(response).sendAttempted

C4_Witness ==
    /\ Refreshed
    /\ \E c \in Changes : c.playerId \in RosterIds(curSnapshot, myTeamId) /\ WentOut(c)
    /\ \E c \in Changes : c.playerId \in RosterIds(curSnapshot, myTeamId) /\ Returned(c)
                          /\ c.previousStatus = "INJURY_RESERVE"
    /\ \E a \in Alerts : a.type = "ROSTER_RETURN"
    /\ Get(response).sendAttempted

C6_SamePositionTeammateAlert ==
    Refreshed =>
        \A c \in Changes :
            (/\ c.playerId \notin RosterIds(curSnapshot, myTeamId)
             /\ WentOut(c)
             /\ \E q \in RosterIds(curSnapshot, myTeamId) :
                   /\ q # c.playerId
                   /\ PoolProTeamId[q] = PoolProTeamId[c.playerId]
                   /\ getPositionsFromSlots(PoolEligibleSlots[q])
                        \cap getPositionsFromSlots(PoolEligibleSlots[c.playerId]) # {})
            => \E a \in Alerts : a.type = "TEAMMATE_INJURY" /\ a.playerName = c.playerId

\* C7 (as claimed): the alert for my roster players when a high-usage
\* teammate returns has type TEAMMATE_RETURN, not TEAMMATE_INJURY.
C7_TeammateReturnType ==
    Refreshed =>
        \A c \in Changes :
            (/\ c.playerId \notin RosterIds(curSnapshot, myTeamId)
             /\ Returned(c)
             /\ PoolProjectedAvg[c.playerId] >= 25
             /\ \E q \in RosterIds(curSnapshot, myTeamId) :
                   q # c.playerId /\ PoolProTeamId[q] = PoolProTeamId[c.playerId])
            => /\ \E a \in Alerts : a.type = "TEAMMATE_RETURN" /\ a.playerName = c.playerId
               /\ ~\E a \in Alerts : a.type = "TEAMMATE_INJURY" /\ a.playerName = c.playerId

\* C8 (as claimed): when a watchlist player who is not on my roster goes out
\* or returns to ACTIVE, an alert about that player is emitted, whatever the
\* player's projected average.
C8_WatchlistPlayerStatusAlert ==
    Refreshed =>
        \A c \in Changes :
            (/\ c.playerId \in curWatchIds
             /\ c.playerId \notin RosterIds(curSnapshot, myTeamId)
             /\ (WentOut(c) \/ Returned(c)))
            => \E a \in Alerts : a.playerName = c.playerId

\* the HOT_WAIVER_ADD alert of a drop
IsDropAlert(a, tx) ==
    /\ a.type = "HOT_WAIVER_ADD"
    /\ a.priority = "HIGH"
    /\ a.playerName = tx.playerId
    /\ a.details = <<tx.teamId>>

C10_StarDropAlert ==
    Refreshed =>
        \A tx \in Range(curTransactions) :
            (/\ tx.type = "DROP" /\ tx.teamId # myTeamId
             /\ PoolProjectedAvg[tx.playerId] >= STAR_THRESHOLD
             /\ PoolSeasonAvg[tx.playerId] >= STAR_THRESHOLD)
            => \E a \in Alerts : a.type = "HOT_WAIVER_ADD" /\ a.playerName = tx.playerId

\* an alert of the league-activity section
IsLeagueActivityAlert(a) ==
    \/ a.type = "HOT_WAIVER_ADD"
    \/ a.type = "WATCHLIST_OPPORTUNITY" /\ a.title.text = "SNIPED by"

\* the SNIPED alert of an add
IsSnipeAlert(a, tx) ==
    /\ a.type = "WATCHLIST_OPPORTUNITY"
    /\ a.priority = "HIGH"
    /\ a.title.text = "SNIPED by"
    /\ a.playerName = tx.playerId
    /\ a.details = <<tx.teamId>>

\* C11: an ADD by another team of a player of the watchlist yields exactly
\* one HIGH WATCHLIST_OPPORTUNITY (SNIPED) alert; an ADD of a player who is
\* not on the watchlist yields none, and no league-activity alert is about a
\* transaction of my own team.
C11_WatchlistSnipeAlert ==
    Refreshed =>
        /\ \A tx \in Range(curTransactions) :
              (tx.type = "ADD" /\ tx.teamId # myTeamId) =>
                  Cardinality({i \in 1..Len(smartAlerts) : IsSnipeAlert(smartAlerts[i], tx)})
                    = (IF tx.playerId \in curWatchIds THEN 1 ELSE 0)
        /\ \A a \in Alerts :
              IsLeagueActivityAlert(a) =>
                  /\ a.details # <<myTeamId>>
                  /\ \E tx \in Range(curTransactions) :
                        /\ tx.teamId # myTeamId
                        /\ tx.playerId = a.playerName
                        /\ a.details = <<tx.teamId>>
                        /\ (a.type = "WATCHLIST_OPPORTUNITY") = (tx.type = "ADD")

C11_Witness ==
    /\ Refreshed
    /\ Len(curTransactions) = 2
    /\ \E i, j \in 1..2 :
          /\ curTransactions[i].type = "DROP" /\ curTransactions[i].teamId = myTeamId
          /\ curTransactions[j].type = "ADD" /\ curTransactions[j].teamId # myTeamId
          /\ curTransactions[j].playerId \in curWatchIds
          /\ \E a \in Alerts : IsSnipeAlert(a, curTransactions[j])
    /\ Cardinality({i \in 1..Len(smartAlerts) : IsLeagueActivityAlert(smartAlerts[i])}) = 1

\* the watchList of my team in the ESPN data of the refresh
EspnWatchListIds ==
    LET mine == {i \in 1..Len(Get(espnData).teams) : Get(espnData).teams[i].id = myTeamId}
    IN  IF mine = {} THEN <<>> ELSE Get(espnData).teams[CHOOSE i \in mine : TRUE].watchList

\* C12: the alerts of a refresh are those generated from the watchList of my
\* team in the ESPN data the refresh fetched (no watchlist when it is empty),
\* its snapshot, its diff and its transactions: the watchlist stored through
\* POST/DELETE /api/watchlist is no input of them, so refreshes that differ
\* only in the stored watchlist generate the same alerts.
C12_AlertsFromEspnWatchlist ==
    Refreshed =>
        smartAlerts = generateSmartAlerts(curSnapshot, curDiff,
                                          IF Len(EspnWatchListIds) = 0 THEN None
                                          ELSE Some([playerIds |-> EspnWatchListIds]),
                                          curTransactions)

C12_Witness ==
    /\ Refreshed
    /\ IsSome(storedWatchlist)
    /\ Get(storedWatchlist).playerIds = <<3, 2>>
    /\ Len(EspnWatchListIds) = 0
    /\ \E tx \in Range(curTransactions) :
          tx.type = "DROP" /\ tx.playerId = 2 /\ tx.teamId # myTeamId
    /\ ~\E a \in Alerts : IsLeagueActivityAlert(a)

\* the ids of the players ESPN's data of the refresh has on a team's roster
EspnRosterIds(teamId) ==
    UNION { {Get(espnData).teams[i].roster[j].id : j \in 1..Len(Get(espnData).teams[i].roster)} :
            i \in {k \in 1..Len(Get(espnData).teams) : Get(espnData).teams[k].id = teamId} }

\* C13: every transaction getLeagueSnapshot returns agrees with the rosters
\* of the same call: a DROP only if the player is not on the dropping team's
\* roster, an ADD only if the player is on the adding team's roster.
C13_TransactionsAgreeWithRosters ==
    Refreshed =>
        \A tx \in Range(curTransactions) :
            /\ tx.type = "DROP" => tx.playerId \notin EspnRosterIds(tx.teamId)
            /\ tx.type = "ADD" => tx.playerId \in EspnRosterIds(tx.teamId)

C13_Witness ==
    /\ Refreshed
    /\ Len(curTransactions) = 2
    /\ curTransactions[1].type = "DROP"
    /\ curTransactions[1].playerId \notin EspnRosterIds(curTransactions[1].teamId)
    /\ curTransactions[2].type = "ADD"
    /\ curTransactions[2].playerId \in EspnRosterIds(curTransactions[2].teamId)

\* ------------------------------------------------------------------------
\* League activity across refreshes: ESPN's communication feed, read by
\* every refresh through getRecentTransactions (espnClient.ts 378-462)
\* ------------------------------------------------------------------------

MaxHours == 24
MaxRefreshes == 3
MaxMoves == 2

\* "last 12 hours to match cron interval"
TransactionWindowHours == 12

\* a roster slot that is not the free agent pool (12: bench)
BenchSlot == FREE_AGENT_SLOT + 1

Topic(type, date, msg) == [type |-> type, date |-> date, messages |-> <<msg>>]

Message(targetId, from, to, for, date) ==
    [targetId |-> targetId, from |-> from, to |-> to, for |-> for, date |-> date]

\* the transactions of one message of a topic
messageTransactions(msg) ==
    IF IsNone(msg.from) \/ IsNone(msg.to) THEN <<>>
    ELSE IF Get(msg.from) # FREE_AGENT_SLOT /\ Get(msg.to) # FREE_AGENT_SLOT THEN <<>>
    ELSE IF Get(msg.to) = FREE_AGENT_SLOT /\ Get(msg.from) # FREE_AGENT_SLOT
         THEN << [teamId |-> msg.for, type |-> "DROP", playerId |-> msg.targetId,
                  timestamp |-> msg.date] >>
    ELSE IF Get(msg.from) = FREE_AGENT_SLOT /\ Get(msg.to) # FREE_AGENT_SLOT
         THEN << [teamId |-> msg.for, type |-> "ADD", playerId |-> msg.targetId,
                  timestamp |-> msg.date] >>
    ELSE <<>>

RECURSIVE topicTransactions(_)
topicTransactions(messages) ==
    IF messages = <<>> THEN <<>>
    ELSE messageTransactions(Head(messages)) \o topicTransactions(Tail(messages))

inWindow(topic, dateNow) ==
    LET twelveHoursAgo == dateNow - TransactionWindowHours
    IN  ~(topic.date < twelveHoursAgo)

RECURSIVE getRecentTransactions(_, _)
getRecentTransactions(topics, dateNow) ==
    IF topics = <<>> THEN <<>>
    ELSE LET topic == Head(topics)
             rest == getRecentTransactions(Tail(topics), dateNow)
         IN  IF topic.type # "ACTIVITY_TRANSACTIONS" THEN rest
             ELSE IF ~inWindow(topic, dateNow) THEN rest
             ELSE topicTransactions(topic.messages) \o rest

\* the moves of the feed that went to or came from the free agent pool
FeedMoves == getRecentTransactions(espnTopics, 0)

\* the league of these runs: player 1 is mine, player 2 the other team's, and
\* player 3 is the other team's until dropped and again once added back
TxOwner ==
    LET onWaivers == FeedMoves # <<>> /\ FeedMoves[Len(FeedMoves)].type = "DROP"
    IN  [p \in PlayerIds |->
            IF p = 1 THEN myTeamId
            ELSE IF p = 3 /\ onWaivers THEN FreeAgentPool
            ELSE otherTeamId]

NoInjuries == [p \in PlayerIds |-> NoStatus]

\* what the league can do next: the other team drops player 3 (or adds them
\* back), or moves player 2 from the bench into a lineup slot
NextTopics ==
    { Topic("ACTIVITY_TRANSACTIONS", now,
            IF TxOwner[3] = otherTeamId
            THEN Message(3, Some(BenchSlot), Some(FREE_AGENT_SLOT), otherTeamId, now)
            ELSE Message(3, Some(FREE_AGENT_SLOT), Some(BenchSlot), otherTeamId, now)),
      Topic("ACTIVITY_TRANSACTIONS", now,
            Message(2, Some(BenchSlot), Some(0), otherTeamId, now)),
      Topic("ACTIVITY_TRANSACTIONS", now,
            Message(2, None, None, otherTeamId, now)) }

LeagueMove ==
    /\ Len(espnTopics) < MaxMoves
    /\ \E topic \in NextTopics : espnTopics' = Append(espnTopics, topic)
    /\ UNCHANGED <<now, latest, history, snapshots, lastDiff, injuryHistory,
                   espnData, smartAlerts, response, pc, locals, completed,
                   storedWatchlist, request, alertLog, kv, retry, risk, watchCalls>>

\* the transactions of a refresh an alert was raised for
AlertedTransactions(transactions, alerts) ==
    { tx \in Range(transactions) :
        \E a \in Range(alerts) :
            /\ a.playerName = tx.playerId
            /\ a.details = <<tx.teamId>>
            /\ \/ tx.type = "DROP" /\ a.type = "HOT_WAIVER_ADD"
               \/ tx.type = "ADD" /\ a.type = "WATCHLIST_OPPORTUNITY"
                                  /\ a.title.text = "SNIPED by" }

\* a refresh dt hours after the last one: the 12-hour cron, or a manual
\* refresh in between
RefreshSpacings == {1, CronIntervalHours}

TxRefresh(dt) ==
    /\ Len(alertLog) < MaxRefreshes
    /\ now + dt <= MaxHours
    /\ now' = now + dt
    /\ \E watchList \in WatchLists :
          RefreshOk(RawEspn(TxOwner, NoInjuries, 1, FullSchedule, watchList, <<>>),
                    {getRecentTransactions(espnTopics, now')})
    /\ alertLog' = Append(alertLog,
                          AlertedTransactions(Get(espnData').recentTransactions, smartAlerts'))
    /\ UNCHANGED request

TxInit == Init /\ EmptyStorage

TxNext == LeagueMove \/ \E dt \in RefreshSpacings : TxRefresh(dt)

TxSpec == TxInit /\ [][TxNext]_vars

\* C14 (as claimed): transaction alerts are deduplicated: no league
\* transaction gives rise to an alert in more than one refresh, whatever the
\* spacing of the refreshes.
C14_TransactionAlertedOnce ==
    \A i \in 1..Len(alertLog), j \in 1..Len(alertLog) :
        i < j => alertLog[i] \cap alertLog[j] = {}

\* what the claim rejects: CRON_SECRET is set (to a non-empty value), the
\* request is not a manual refresh (no POST, no x-manual-refresh: true) and
\* its Authorization header is not "Bearer <CRON_SECRET>"
MustReject(req) ==
    /\ req.cronSecret \notin {None, Some("")}
    /\ req.method # "POST"
    /\ req.manualRefresh # Some("true")
    /\ \/ IsNone(req.authorization)
       \/ Get(req.authorization) # <<"Bearer", Get(req.cronSecret)>>

\* C15: the refresh handler answers 401 exactly when CRON_SECRET is set, the
\* request carries no x-manual-refresh: true and its Authorization header is
\* not "Bearer <CRON_SECRET>"; a rejected request fetches nothing from ESPN,
\* writes nothing to storage and sends no notification. A manual refresh
\* (every POST included) and any request when CRON_SECRET is unset are
\* let through.
C15_UnauthorizedIff ==
    [][ /\ (IsSome(response') /\ Get(response').status = 401) =>
              /\ IsSome(request') /\ MustReject(Get(request'))
              /\ UNCHANGED <<now, espnData, smartAlerts>>
              /\ UNCHANGED StorageVars
              /\ ~Get(response').sendAttempted /\ IsNone(Get(response').posted)
        /\ (IsNone(request) /\ IsSome(request')) =>
              /\ IsSome(response')
              /\ (Get(response').status = 401) = MustReject(Get(request'))
      ]_vars

C15_Witness ==
    /\ IsSome(request) /\ IsSome(response)
    /\ Get(request).method = "GET"
    /\ Get(request).cronSecret = Some("s3cret")
    /\ Get(request).manualRefresh = Some("1")
    /\ Get(request).authorization = Some(<<"s3cret">>)
    /\ Get(response).status = 401
    /\ IsNone(espnData) /\ now = 0 /\ smartAlerts = <<>>

\* ------------------------------------------------------------------------
\* fetchWithRetry, await by await (espnClient.ts 80-117)
\* ------------------------------------------------------------------------

RATE_LIMIT == [maxRetries |-> 3, baseDelayMs |-> 1000, maxDelayMs |-> 10000]

Min(a, b) == IF a < b THEN a ELSE b

\* how one fetch() can end: it rejects (network failure), or resolves with a
\* response of some status
HttpStatuses == {200, 204, 404, 429, 500}
FetchOutcomes == {[rejected |-> TRUE, status |-> 0]}
                 \cup {[rejected |-> FALSE, status |-> st] : st \in HttpStatuses}

\* Response.ok
ok(status) == status >= 200 /\ status <= 299

\* the loop test with one attempt too many
withinRetries_oneMore(attempt, retries) == attempt <= retries + 1

\* for (let attempt = 0; attempt <= retries; attempt++)
withinRetries(attempt, retries) == attempt <= retries

errorOf(outcome) ==
    IF outcome.rejected THEN <<"fetch failed">> ELSE <<"ESPN API error", outcome.status>>

\* fetchWithRetry(url, options) is called, retries = RATE_LIMIT.maxRetries
CallFetchWithRetry ==
    /\ IsNone(retry)
    /\ retry' = Some([ retries   |-> RATE_LIMIT.maxRetries,
                       attempt   |-> 0,
                       delay     |-> RATE_LIMIT.baseDelayMs,
                       lastError |-> None,
                       pc        |-> "loop",
                       fetched   |-> <<>>,
                       returned  |-> None,
                       threw     |-> None ])
    /\ UNCHANGED <<now, latest, history, snapshots, lastDiff, injuryHistory,
                   espnData, smartAlerts, response, pc, locals, completed,
                   storedWatchlist, request, espnTopics, alertLog, kv, risk, watchCalls>>

\* one pass of the loop body up to its next await, return or continue
Attempt ==
    /\ IsSome(retry)
    /\ Get(retry).pc = "loop"
    /\ withinRetries(Get(retry).attempt, Get(retry).retries)
    /\ \E outcome \in FetchOutcomes :
          LET r == [Get(retry) EXCEPT !.fetched = Append(@, outcome)]
          IN  retry' = Some(
                IF ~outcome.rejected /\ outcome.status = 429
                    THEN [r EXCEPT !.pc = "sleep"]
                ELSE IF ~outcome.rejected /\ ok(outcome.status)
                    THEN [r EXCEPT !.pc = "done", !.returned = Some(outcome.status)]
                ELSE IF r.attempt < r.retries
                    THEN [r EXCEPT !.lastError = Some(errorOf(outcome)), !.pc = "sleep"]
                ELSE [r EXCEPT !.lastError = Some(errorOf(outcome)), !.attempt = @ + 1])
    /\ UNCHANGED <<now, latest, history, snapshots, lastDiff, injuryHistory,
                   espnData, smartAlerts, response, pc, locals, completed,
                   storedWatchlist, request, espnTopics, alertLog, kv, risk, watchCalls>>

\* await sleep(delay) is over: the delay doubles and the next pass starts
Sleep ==
    /\ IsSome(retry)
    /\ Get(retry).pc = "sleep"
    /\ retry' = Some([Get(retry) EXCEPT
                        !.delay = Min(@ * 2, RATE_LIMIT.maxDelayMs),
                        !.attempt = @ + 1,
                        !.pc = "loop"])
    /\ UNCHANGED <<now, latest, history, snapshots, lastDiff, injuryHistory,
                   espnData, smartAlerts, response, pc, locals, completed,
                   storedWatchlist, request, espnTopics, alertLog, kv, risk, watchCalls>>

\* the loop is over: throw lastError || new Error('Failed to fetch from ESPN API')
GiveUp ==
    /\ IsSome(retry)
    /\ Get(retry).pc = "loop"
    /\ ~withinRetries(Get(retry).attempt, Get(retry).retries)
    /\ retry' = Some([Get(retry) EXCEPT
                        !.pc = "done",
                        !.threw = IF IsSome(Get(retry).lastError) THEN Get(retry).lastError
                                  ELSE Some(<<"Failed to fetch from ESPN API">>)])
    /\ UNCHANGED <<now, latest, history, snapshots, lastDiff, injuryHistory,
                   espnData, smartAlerts, response, pc, locals, completed,
                   storedWatchlist, request, espnTopics, alertLog, kv, risk, watchCalls>>

RetryNext == CallFetchWithRetry \/ Attempt \/ Sleep \/ GiveUp

\* every fetch() settles and every timer fires, so a pending step is taken
RetryInit == Init /\ EmptyStorage

RetrySpec == RetryInit /\ [][RetryNext]_vars /\ WF_vars(RetryNext)

\* the call is over
RetryDone == IsSome(retry) /\ Get(retry).pc = "done"

\* C16: fetchWithRetry terminates after at most 4 attempts (1 initial and 3
\* retries), and when it is over it has either returned a 2xx response or
\* thrown: it never returns a 429 or any other non-OK response.
C16_RetryBounded ==
    /\ [](IsSome(retry) =>
            /\ Len(Get(retry).fetched) <= 4
            /\ RetryDone =>
                  /\ IsSome(Get(retry).returned) # IsSome(Get(retry).threw)
                  /\ IsSome(Get(retry).returned) =>
                        /\ Get(Get(retry).returned) \in 200..299
                        /\ Get(Get(retry).returned) # 429)
    /\ <>RetryDone

C16_Witness ==
    /\ RetryDone
    /\ Len(Get(retry).fetched) = 4
    /\ \A i \in 1..4 : Get(retry).fetched[i].status = 429
    /\ Get(retry).threw = Some(<<"Failed to fetch from ESPN API">>)
    /\ IsNone(Get(retry).returned)

\* ------------------------------------------------------------------------
\* The two storage adapters, operation by operation (storage.ts 35-179).
\* The file adapter writes the files latest, history, snapshots, lastDiff,
\* injuryHistory and storedWatchlist; the KV adapter writes the keys of kv.
\* ------------------------------------------------------------------------

MaxStoreTime == 52
MaxRepeats == 2

\* Redis LPUSH, LTRIM and LRANGE (indices from 0, both ends included)
lpush(list, value) == <<value>> \o list

ltrim(list, start, stop) == SubSeq(list, start + 1, Min(stop + 1, Len(list)))

lrange(list, start, stop) == SubSeq(list, start + 1, Min(stop + 1, Len(list)))

\* kvStorage.storeSnapshot
kvStoreSnapshot(store, snapshot) ==
    [store EXCEPT !.snapshots = (snapshot.fetchedAt :> snapshot) @@ @,
                  !.latest = Some(snapshot),
                  !.history = ltrim(lpush(@, snapshot.fetchedAt), 0, MAX_HISTORY_LENGTH - 1)]

\* a read of the newest entry of the history instead of the one before it
kvGetPreviousSnapshot_newest(store) ==
    LET hist == lrange(store.history, 0, 1)
    IN  IF Len(hist) < 2 THEN None
        ELSE IF hist[1] \in DOMAIN store.snapshots THEN Some(store.snapshots[hist[1]]) ELSE None

\* kvStorage.getPreviousSnapshot
kvGetPreviousSnapshot(store) ==
    LET hist == lrange(store.history, 0, 1)
    IN  IF Len(hist) < 2 THEN None
        ELSE IF hist[2] \in DOMAIN store.snapshots THEN Some(store.snapshots[hist[2]]) ELSE None

\* what the get operations of the StorageAdapter interface return
fileGets ==
    [ getLatestSnapshot   |-> getLatestSnapshot(latest),
      getPreviousSnapshot |-> getPreviousSnapshot(history, snapshots),
      getLastDiff         |-> lastDiff,
      getInjuryHistory    |-> injuryHistory,
      getWatchlist        |-> storedWatchlist ]

kvGets ==
    [ getLatestSnapshot   |-> kv.latest,
      getPreviousSnapshot |-> kvGetPreviousSnapshot(kv),
      getLastDiff         |-> kv.lastDiff,
      getInjuryHistory    |-> kv.injuryHistory,
      getWatchlist        |-> kv.watchlist ]

\* the snapshot stored at a time, of a league whose rosters do not change
StoredSnapshot(fetchedAt) ==
    snapshotOf(RawEspn([p \in PlayerIds |-> IF p = 1 THEN myTeamId ELSE otherTeamId],
                       NoInjuries, 1, FullSchedule, <<>>, <<>>), fetchedAt)

StoredDiffs == { calculateSnapshotDiff(None, StoredSnapshot(0)),
                 calculateSnapshotDiff(Some(StoredSnapshot(0)), StoredSnapshot(1)) }

StoredWatchlists == { [playerIds |-> ids, lastUpdated |-> 0] : ids \in {<<>>, <<3>>} }

\* the timestamps of the next snapshot: a later one, and for the first
\* snapshots also the one of the snapshot before
FetchedAtChoices == IF Len(history) < MaxRepeats THEN {now, now + 1} ELSE {now + 1}

\* the values no storage operation touches
StorageOnly ==
    UNCHANGED <<espnData, smartAlerts, response, pc, locals, completed, request,
                espnTopics, alertLog, retry, risk, watchCalls>>

\* storeSnapshot(snapshot), on both adapters
AdaptersStoreSnapshot ==
    /\ \E fetchedAt \in FetchedAtChoices :
          /\ fetchedAt <= MaxStoreTime
          /\ now' = fetchedAt
          /\ snapshots' = (fetchedAt :> StoredSnapshot(fetchedAt)) @@ snapshots
          /\ latest' = Some(StoredSnapshot(fetchedAt))
          /\ history' = storeSnapshotHistory(history, fetchedAt)
          /\ kv' = kvStoreSnapshot(kv, StoredSnapshot(fetchedAt))
    /\ UNCHANGED <<lastDiff, injuryHistory, storedWatchlist>>
    /\ StorageOnly

\* storeLastDiff(leagueId, seasonId, diff), on both adapters
AdaptersStoreLastDiff ==
    /\ \E diff \in StoredDiffs :
          /\ lastDiff' = Some(diff)
          /\ kv' = [kv EXCEPT !.lastDiff = Some(diff)]
    /\ UNCHANGED <<now, latest, history, snapshots, injuryHistory, storedWatchlist>>
    /\ StorageOnly

\* storeInjuryHistory(leagueId, seasonId, history), on both adapters
AdaptersStoreInjuryHistory ==
    /\ LET index == updateInjuryHistory(StoredSnapshot(0), None)
       IN  /\ injuryHistory' = Some(index)
           /\ kv' = [kv EXCEPT !.injuryHistory = Some(index)]
    /\ UNCHANGED <<now, latest, history, snapshots, lastDiff, storedWatchlist>>
    /\ StorageOnly

\* storeWatchlist(leagueId, seasonId, watchlist), on both adapters
AdaptersStoreWatchlist ==
    /\ \E wl \in StoredWatchlists :
          /\ storedWatchlist' = Some(wl)
          /\ kv' = [kv EXCEPT !.watchlist = Some(wl)]
    /\ UNCHANGED <<now, latest, history, snapshots, lastDiff, injuryHistory>>
    /\ StorageOnly

StorageNext ==
    \/ AdaptersStoreSnapshot
    \/ AdaptersStoreLastDiff
    \/ AdaptersStoreInjuryHistory
    \/ AdaptersStoreWatchlist

StorageInit == Init /\ EmptyStorage

StorageSpec == StorageInit /\ [][StorageNext]_vars

\* C17 (as claimed): after any sequence of storeSnapshot calls at most 50
\* snapshots are retained in storage, under either adapter.
C17_AtMostFiftySnapshots ==
    /\ Cardinality(DOMAIN snapshots) <= 50
    /\ Cardinality(DOMAIN kv.snapshots) <= 50

\* C18: from empty storage and after every sequence of StorageAdapter
\* operations, each get operation (latest snapshot, previous snapshot, last
\* diff, injury history, watchlist) returns the same value under the file
\* adapter and under the KV adapter.
C18_AdaptersEquivalent == fileGets = kvGets

C18_Witness ==
    /\ Len(history) = MAX_HISTORY_LENGTH
    /\ now > MAX_HISTORY_LENGTH
    /\ kvGets.getPreviousSnapshot = Some(StoredSnapshot(now - 1))
    /\ fileGets.getPreviousSnapshot = Some(StoredSnapshot(now - 1))
    /\ IsSome(kvGets.getLatestSnapshot)
    /\ IsSome(kvGets.getLastDiff)
    /\ IsSome(kvGets.getInjuryHistory)
    /\ IsSome(kvGets.getWatchlist)

\* ------------------------------------------------------------------------
\* injuryTracker: getInjuryRiskAssessment (part_002 135-189), applied to
\* the injury histories updateInjuryHistory builds refresh after refresh.
\* Multipliers are held in hundredths (1.0 is 100, 0.6 is 60, 0.6 * 0.5
\* is 30); gamesMissedPct is held as the fraction <<numerator, denominator>>.
\* ------------------------------------------------------------------------

MaxUpdates == 4

getInjuryRiskAssessment(playerId, hist) ==
    LET defaultAssessment == [ playerId           |-> playerId,
                               riskLevel          |-> "LOW",
                               gamesMissedPct     |-> <<0, 1>>,
                               injuryCount        |-> 0,
                               isCurrentlyInjured |-> FALSE,
                               scorePenalty       |-> 100 ]
    IN  IF IsNone(hist) \/ playerId \notin DOMAIN Get(hist) THEN defaultAssessment
        ELSE
          LET playerHistory == Get(hist)[playerId]
              gamesMissedPct == IF playerHistory.totalGamesTracked > 0
                                THEN <<playerHistory.totalGamesMissed * 100,
                                       playerHistory.totalGamesTracked>>
                                ELSE <<0, 1>>
              \* gamesMissedPct >= pct
              missedAtLeast(pct) == gamesMissedPct[1] >= pct * gamesMissedPct[2]
              injuryCount == Len(playerHistory.injuryEvents)
              isCurrentlyInjured == playerHistory.currentlyInjured
              high == missedAtLeast(30) \/ injuryCount >= 4
              medium == missedAtLeast(15) \/ injuryCount >= 2
              riskLevel == IF high THEN "HIGH" ELSE IF medium THEN "MEDIUM" ELSE "LOW"
              penalty == IF high THEN 60 ELSE IF medium THEN 80 ELSE 100
          IN  [ playerId           |-> playerId,
                riskLevel          |-> riskLevel,
                gamesMissedPct     |-> gamesMissedPct,
                injuryCount        |-> injuryCount,
                isCurrentlyInjured |-> isCurrentlyInjured,
                scorePenalty       |-> IF isCurrentlyInjured THEN penalty \div 2 ELSE penalty ]

\* the statuses of the refreshes of these runs: player 1 healthy, day to day
\* or out, the others healthy
RiskInjuries == {st \in Injuries : st[2] = NoStatus /\ st[3] = NoStatus}

\* the players assessed: the pool, and a player no snapshot has held
AssessedIds == PlayerIds \cup {Cardinality(PlayerIds) + 1}

\* a refresh, the 12-hour cron or a manual one in between, as far as the
\* history of timestamps and the injury history go (part_004 84-90)
TrackInjuries ==
    /\ Len(history) < MaxUpdates
    /\ \E dt \in RefreshSpacings : now' = now + dt
    /\ history' = storeSnapshotHistory(history, now')
    /\ \E inj \in RiskInjuries :
          injuryHistory' = Some(updateInjuryHistory(
              snapshotOf(RawEspn([p \in PlayerIds |-> IF p = 1 THEN myTeamId ELSE otherTeamId],
                                 inj, 1, FullSchedule, <<>>, <<>>), now'),
              injuryHistory))
    /\ UNCHANGED <<latest, snapshots, lastDiff, espnData, smartAlerts, response,
                   pc, locals, completed, storedWatchlist, request, espnTopics, alertLog,
                   kv, retry, risk, watchCalls>>

\* getInjuryRiskAssessment(playerId, history) on the stored history
AssessRisk ==
    /\ \E playerId \in AssessedIds :
          risk' = Some([ playerId   |-> playerId,
                         history    |-> injuryHistory,
                         assessment |-> getInjuryRiskAssessment(playerId, injuryHistory) ])
    /\ UNCHANGED <<now, latest, history, snapshots, lastDiff, injuryHistory, espnData,
                   smartAlerts, response, pc, locals, completed, storedWatchlist, request,
                   espnTopics, alertLog, kv, retry, watchCalls>>

RiskNext == TrackInjuries \/ AssessRisk

RiskInit == Init /\ EmptyStorage

RiskSpec == RiskInit /\ [][RiskNext]_vars

\* C19 (as claimed): the scorePenalty getInjuryRiskAssessment returns is a
\* multiplier between 0.5 and 1.0 inclusive (50 and 100 hundredths), and it
\* is 1.0 for a player with no recorded history.
C19_ScorePenaltyRange ==
    IsSome(risk) =>
        LET r == Get(risk)
        IN  /\ r.assessment.scorePenalty >= 50
            /\ r.assessment.scorePenalty <= 100
            /\ (IsNone(r.history) \/ r.playerId \notin DOMAIN Get(r.history)) =>
                  r.assessment.scorePenalty = 100

\* the players a snapshot holds, on a roster or in the free-agent list
PresentIds(snapshot) == RosteredIds(snapshot) \cup FreeAgentIds(snapshot)

\* C20 (as claimed): statusChanges of the diff of two consecutive snapshots
\* has exactly one entry for each player present in both (on any roster or
\* in the free-agent list) whose status differs, carrying the previous and
\* the current status, with isMyPlayer true exactly when the player is on my
\* roster in the current snapshot, and no entry for any other player.
C20_StatusChangesComplete ==
    (Refreshed /\ IsSome(prevSnapshot)) =>
        LET prev == Get(prevSnapshot)
            both == PresentIds(prev) \cap PresentIds(curSnapshot)
            changed == {p \in both : StatusIn(prev, p) # StatusIn(curSnapshot, p)}
            entries(p) == {i \in 1..Len(curDiff.statusChanges) :
                              curDiff.statusChanges[i].playerId = p}
        IN  /\ \A p \in changed :
                  /\ Cardinality(entries(p)) = 1
                  /\ \A i \in entries(p) :
                        /\ curDiff.statusChanges[i].previousStatus = StatusIn(prev, p)
                        /\ curDiff.statusChanges[i].currentStatus = StatusIn(curSnapshot, p)
                        /\ curDiff.statusChanges[i].isMyPlayer
                              = (p \in RosterIds(curSnapshot, myTeamId))
            /\ \A c \in Changes : c.playerId \in changed

\* how often an alert occurs in a sequence of alerts
Occurrences(alerts, a) == Cardinality({i \in 1..Len(alerts) : alerts[i] = a})

\* C21: a refresh attempts to send a Telegram message if and only if at
\* least one generated alert has priority HIGH or MEDIUM, and the message
\* then holds every HIGH alert followed by every MEDIUM alert and no LOW
\* alert.
C21_MessageOfActionableAlerts ==
    Refreshed =>
        LET answer == Get(response)
        IN  /\ answer.sendAttempted = (\E a \in Alerts : a.priority \in {"HIGH", "MEDIUM"})
            /\ IsSome(answer.posted) => answer.sendAttempted
            /\ answer.alertSent => IsSome(answer.posted)
            /\ IsSome(answer.posted) =>
                  LET message == Get(answer.posted)
                  IN  /\ \A a \in Alerts :
                            Occurrences(message, a)
                              = (IF a.priority = "LOW" THEN 0 ELSE Occurrences(smartAlerts, a))
                      /\ \A i \in 1..Len(message) :
                            /\ message[i] \in Alerts
                            /\ message[i].priority \in {"HIGH", "MEDIUM"}
                      /\ \A i \in 1..Len(message), j \in 1..Len(message) :
                            (message[i].priority = "MEDIUM" /\ message[j].priority = "HIGH")
                              => j < i

C21_Witness ==
    /\ Refreshed
    /\ Get(response).sendAttempted
    /\ IsSome(Get(response).posted)
    /\ \E a \in Alerts : a.priority = "LOW"
    /\ \E i \in 1..Len(Get(Get(response).posted)) :
          Get(Get(response).posted)[i].priority = "HIGH"
    /\ \E i \in 1..Len(Get(Get(response).posted)) :
          Get(Get(response).posted)[i].priority = "MEDIUM"
    /\ Len(Get(Get(response).posted)) < Len(smartAlerts)

\* the refresh called sendSmartAlerts and the send failed: Telegram rejected
\* the message or could not be reached (the send returned false), or the
\* Telegram credentials are missing (the send threw)
SendFailed ==
    /\ IsSome(response)
    /\ IsSome(Get(response).telegram)
    /\ Get(Get(response).telegram) \in {"rejected", "noconfig"}

\* C22: if sending the Telegram message fails (the send returns false or
\* throws), the refresh still answers success=true with alertSent=false, and
\* the snapshot, the diff and the injury history it wrote remain stored.
C22_SendFailureKeepsRefresh ==
    SendFailed =>
        /\ Get(response).status = 200
        /\ Get(response).success
        /\ ~Get(response).alertSent
        /\ IsSome(latest) /\ Get(latest).fetchedAt = now
        /\ now \in DOMAIN snapshots /\ snapshots[now] = Get(latest)
        /\ Len(history) > 0 /\ history[1] = now
        /\ IsSome(lastDiff) /\ lastDiff = Get(response).diff
        /\ lastDiff = Some(calculateSnapshotDiff(prevSnapshot, Get(latest)))
        /\ IsSome(injuryHistory)
        /\ \A p \in PresentIds(Get(latest)) :
              /\ p \in DOMAIN Get(injuryHistory)
              /\ Get(injuryHistory)[p].lastUpdated = now

C22_Witness ==
    /\ SendFailed
    /\ Get(Get(response).telegram) = "noconfig"
    /\ Get(response).success
    /\ ~Get(response).alertSent
    /\ IsSome(prevSnapshot)
    /\ Len(Get(lastDiff).statusChanges) > 0

\* C23: if fetching the league data from ESPN fails, the refresh answers
\* HTTP 500 with success=false, sends no notification and leaves every
\* stored value (latest snapshot, snapshot history, last diff, injury
\* history) unchanged.
C23_FetchFailureChangesNothing ==
    [][ (IsNone(response) /\ IsSome(response') /\ IsNone(espnData')) =>
            /\ Get(response').status = 500
            /\ ~Get(response').success
            /\ ~Get(response').sendAttempted
            /\ IsNone(Get(response').posted)
            /\ ~Get(response').alertSent
            /\ latest' = latest
            /\ history' = history
            /\ snapshots' = snapshots
            /\ lastDiff' = lastDiff
            /\ injuryHistory' = injuryHistory
      ]_vars

C23_Witness ==
    /\ IsSome(response)
    /\ Get(response).status = 500
    /\ ~Get(response).success
    /\ IsNone(espnData)
    /\ now = CronIntervalHours
    /\ IsSome(latest) /\ Get(latest).fetchedAt = 0
    /\ history = <<0>>
    /\ IsSome(lastDiff) /\ IsSome(injuryHistory)

\* ------------------------------------------------------------------------
\* /api/watchlist, await by await (watchlist/route.ts 50-147): a handler
\* awaits getWatchlist, changes the list it read and awaits storeWatchlist
\* ------------------------------------------------------------------------

WatchVarsOnly ==
    UNCHANGED <<now, latest, history, snapshots, lastDiff, injuryHistory, espnData,
                smartAlerts, response, pc, locals, completed, request, espnTopics,
                alertLog, kv, retry, risk>>

WatchRunning == {slot \in WatchSlots : IsSome(watchCalls.exec[slot])}

\* the handler returns its response
WatchReturn(slot) ==
    [ exec      |-> [watchCalls.exec EXCEPT ![slot] = None],
      completed |-> Append(watchCalls.completed,
                           [ method   |-> Get(watchCalls.exec[slot]).method,
                             playerId |-> Get(watchCalls.exec[slot]).playerId ]) ]

\* POST or DELETE is called with a valid playerId and awaits getWatchlist
WatchlistCall(slot) ==
    /\ IsNone(watchCalls.exec[slot])
    /\ Len(watchCalls.completed) + Cardinality(WatchRunning) < MaxWatchRequests
    /\ \E method \in {"POST", "DELETE"}, playerId \in StoredWatchIds :
          watchCalls' = [watchCalls EXCEPT !.exec[slot] =
                            Some([ method |-> method, playerId |-> playerId,
                                   pc |-> "getWatchlist", watchlist |-> None ])]
    /\ UNCHANGED storedWatchlist
    /\ WatchVarsOnly

\* getWatchlist resolved: the handler builds its list, and either returns
\* (POST of a listed player, DELETE with nothing stored) or awaits
\* storeWatchlist
WatchlistRead(slot) ==
    /\ IsSome(watchCalls.exec[slot])
    /\ Get(watchCalls.exec[slot]).pc = "getWatchlist"
    /\ LET call == Get(watchCalls.exec[slot])
           existing == storedWatchlist
           toStore(watchlist) ==
               [watchCalls EXCEPT !.exec[slot] =
                   Some([call EXCEPT !.pc = "storeWatchlist", !.watchlist = Some(watchlist)])]
       IN  IF call.method = "POST"
           THEN LET watchlist == IF IsSome(existing) THEN Get(existing)
                                 ELSE [playerIds |-> <<>>, lastUpdated |-> now]
                IN  IF ~Contains(watchlist.playerIds, call.playerId)
                    THEN watchCalls' = toStore([ playerIds   |-> Append(watchlist.playerIds,
                                                                        call.playerId),
                                                 lastUpdated |-> now ])
                    ELSE watchCalls' = WatchReturn(slot)
           ELSE IF IsNone(existing)
                THEN watchCalls' = WatchReturn(slot)
                ELSE watchCalls' = toStore([ playerIds   |-> SelectSeq(Get(existing).playerIds,
                                                              LAMBDA id : id # call.playerId),
                                             lastUpdated |-> now ])
    /\ UNCHANGED storedWatchlist
    /\ WatchVarsOnly

\* storeWatchlist resolved: the list of this handler is the stored one
WatchlistWrite(slot) ==
    /\ IsSome(watchCalls.exec[slot])
    /\ Get(watchCalls.exec[slot]).pc = "storeWatchlist"
    /\ storedWatchlist' = Get(watchCalls.exec[slot]).watchlist
    /\ watchCalls' = WatchReturn(slot)
    /\ WatchVarsOnly

WatchInit == Init /\ EmptyStorage

WatchNext ==
    \E slot \in WatchSlots : WatchlistCall(slot) \/ WatchlistRead(slot) \/ WatchlistWrite(slot)

WatchSpec == WatchInit /\ [][WatchNext]_vars

\* the stored player ids, as a sequence
StoredPlayerIds == IF IsSome(storedWatchlist) THEN Get(storedWatchlist).playerIds ELSE <<>>

\* the last completed request for a player id was a POST
LastWasPost(playerId) ==
    LET about == SelectSeq(watchCalls.completed, LAMBDA c : c.playerId = playerId)
    IN  Len(about) > 0 /\ about[Len(about)].method = "POST"

\* C24 (as claimed): once the POST and DELETE requests to /api/watchlist have
\* completed, interleaved or not, the stored playerIds has no duplicates and
\* holds a player id if and only if the last completed request for that id
\* was a POST.
C24_NoLostWatchlistUpdate ==
    WatchRunning = {} =>
        /\ \A i \in 1..Len(StoredPlayerIds), j \in 1..Len(StoredPlayerIds) :
              StoredPlayerIds[i] = StoredPlayerIds[j] => i = j
        /\ \A playerId \in StoredWatchIds :
              Contains(StoredPlayerIds, playerId) = LastWasPost(playerId)

\* the history list as a storeSnapshot of fetchedAt must leave it: the
\* timestamp first, then the earlier ones, 50 at most
NewestFirst(before, fetchedAt, after) ==
    /\ Len(after) <= 50
    /\ Len(after) >= 1 /\ after[1] = fetchedAt
    /\ Len(after) = (IF Len(before) < 50 THEN Len(before) + 1 ELSE 50)
    /\ \A i \in 2..Len(after) : after[i] = before[i - 1]

EventsConsistent(index) ==
    \A p \in DOMAIN index :
        LET events == index[p].injuryEvents
            n == Len(events)
        IN  /\ index[p].currentlyInjured = (n > 0 /\ IsNone(events[n].endDate))
            /\ \A i \in 1..(n - 1) : IsSome(events[i].endDate)

\* every tracked player stays tracked with the events they had, in their
\* order: a closed event is kept as it is, an open one keeps its start
EventsOnlyAppended(before, after) ==
    \A p \in DOMAIN before :
        /\ p \in DOMAIN after
        /\ Len(after[p].injuryEvents) >= Len(before[p].injuryEvents)
        /\ \A i \in 1..Len(before[p].injuryEvents) :
              LET old == before[p].injuryEvents[i]
                  new == after[p].injuryEvents[i]
              IN  /\ new.startDate = old.startDate
                  /\ new.status = old.status
                  /\ IsSome(old.endDate) => new = old

\* C26: after any sequence of updateInjuryHistory calls, currentlyInjured is
\* true for a tracked player if and only if the player's last injury event
\* has no endDate, every earlier event has an endDate, and injury events are
\* only appended, never removed or reordered.
C26_InjuryEventsWellFormed ==
    [][ IsSome(injuryHistory') =>
            /\ EventsConsistent(Get(injuryHistory'))
            /\ IsSome(injuryHistory) =>
                  EventsOnlyAppended(Get(injuryHistory), Get(injuryHistory'))
      ]_vars

C26_Witness ==
    /\ IsSome(injuryHistory)
    /\ 1 \in DOMAIN Get(injuryHistory)
    /\ Len(Get(injuryHistory)[1].injuryEvents) = 2
    /\ IsSome(Get(injuryHistory)[1].injuryEvents[1].endDate)
    /\ IsNone(Get(injuryHistory)[1].injuryEvents[2].endDate)
    /\ Get(injuryHistory)[1].currentlyInjured

\* C27 (as claimed): after any sequence of updateInjuryHistory calls, every
\* tracked player's totalGamesMissed is at most totalGamesTracked, so the
\* gamesMissedPct of getInjuryRiskAssessment lies between 0 and 100.
C27_MissedAtMostTracked ==
    /\ IsSome(injuryHistory) =>
          \A p \in DOMAIN Get(injuryHistory) :
              /\ Get(injuryHistory)[p].totalGamesMissed >= 0
              /\ Get(injuryHistory)[p].totalGamesMissed <= Get(injuryHistory)[p].totalGamesTracked
    /\ IsSome(risk) =>
          LET pct == Get(risk).assessment.gamesMissedPct
          IN  pct[1] >= 0 /\ pct[1] <= 100 * pct[2]

\* C28 (as claimed): a single call of generateSmartAlerts emits at most one
\* ROSTER_INJURY alert for any one player on my roster.
C28_OneRosterInjuryAlertPerPlayer ==
    Refreshed =>
        \A p \in RosterIds(curSnapshot, myTeamId) :
            Cardinality({i \in 1..Len(smartAlerts) :
                            /\ smartAlerts[i].type = "ROSTER_INJURY"
                            /\ smartAlerts[i].playerName = p}) <= 1

\* the NBA schedule could not be fetched (getNBAProTeamSchedule returned
\* []), so the snapshot holds the default schedule index
DefaultScheduleUsed ==
    /\ Len(Get(espnData).nbaSchedule) = 0
    /\ \A t \in DOMAIN curSnapshot.scheduleIndex :
          /\ curSnapshot.scheduleIndex[t].gamesThisWeek = 3
          /\ curSnapshot.scheduleIndex[t].gamesByDay = {}

\* the schedule warnings the alerts carry
ScheduleWarnings ==
    UNION { Range(a.details) : a \in {b \in Alerts : b.type = "WEEKLY_SUMMARY"} }

\* C29 (as claimed): when the NBA schedule could not be fetched and the
\* default schedule index is used, the refresh emits no schedule warning
\* ("no games next 3 days" or "only N games this week") for any roster
\* player.
C29_NoWarningOnDefaultSchedule ==
    (Refreshed /\ DefaultScheduleUsed) =>
        /\ ScheduleWarnings = {}
        /\ ~\E a \in Alerts : a.type = "WEEKLY_SUMMARY"

====
